---- MODULE Spec2Model ----
(***************************************************************************)
(* Verification model of the sharded dependency-tracking service of the    *)
(* Fabric endorser: the circuit breaker (core/endorser/circuit_breaker.go), *)
(* the shard manager (core/endorser/sharding/shard_manager.go), the        *)
(* endorser fan-out (core/endorser/endorser.go) and the shard replica.     *)
(*                                                                         *)
(* Each component has its own variables, initial condition and next-state  *)
(* relation; a component's specification leaves the other components'      *)
(* variables unchanged.                                                    *)
(***************************************************************************)
EXTENDS Integers, Sequences, FiniteSets, TLC

\* ------------------------------------------------------------------ bounds
\* concurrent callers of CircuitBreaker.Execute
NumCallers == 2
\* the clock of the circuit breaker runs 0..MaxTime (one tick = 10 s)
MaxTime == 4
\* cap of the failure counter (cb.failures++ is unbounded in the code)
MaxFailures == 4
\* concurrent clients of ShardManager.GetOrCreateShard
NumClients == 2
NumShutdowns == 2
\* capacity of TxChannel and of ResponseChannel (1000 in NewEndorser)
ChannelCap == 1
\* batches of outgoing messages the replica hands to its transport
NumBatches == 2
\* batches that fit on MessagesC
MessagesCap == 1
\* transactions the endorser processes concurrently
NumTx == 2
\* capacity of a shard's ProposeC (about 1000 in the program)
ProposeCap == 1
\* the consensus terms of a shard run 1..MaxTerm
MaxTerm == 2
\* replicas of a shard
NumReplicas == 2
\* the clock stops at MaxClock
MaxClock == 2
\* batch_max_size
BatchMaxSize == 2
\* the terms of the consensus group run 0..RaftMaxTerm
RaftMaxTerm == 2
\* entries a leader proposes: logs grow to RaftMaxLog
RaftMaxLog == 2
\* processes that create the same shard
NumProcs == 2
\* requests in an encoded batch
CodecMaxLen == 2
\* terms of the elections around a leader change
LeaderChangeMaxTerm == 3
\* transactions the leader endorser processes
NumEntries == 2
\* the leader endorser's clock stops at SweepMaxClock
SweepMaxClock == 6

\* --------------------------------------------------------------- constants
\* CircuitBreakerConfig.Threshold as the breaker's tests configure it
Threshold == 3
\* DefaultCircuitBreakerConfig().Timeout, 30 s, in ticks of 10 s
Timeout == 3
\* the cleanup ticker's period, 1 minute, in ticks of 30 s
SweepPeriod == 2
\* e.EndorsementExpiryDuration, in the same ticks, scaled down
EndorsementExpiryDuration == 3

VARIABLES
    \* circuit breaker (CircuitBreaker struct)
    cbState,          \* cb.state
    cbFailures,       \* cb.failures
    cbLastFailure,    \* cb.lastFailureTime
    cbRetryCount,     \* cb.retryCount
    cbNow,            \* time.Now()
    cbPc,             \* position of each caller inside Execute
    cbAdmit,          \* how the admission check let the caller through
    cbRet,            \* what the caller's last Execute returned
    \* shard manager (ShardManager struct)
    smShards,         \* sm.shards: shard id -> instance (0: no entry)
    smLock,           \* holder of sm.shardsLock's write lock (0: free)
    smPc,             \* position of each client inside GetOrCreateShard
    smArg,            \* the contractName each client passed
    smRet,            \* what each client's last call returned
    smPath,           \* whether the call took the fast path or the locked path
    smBuilt,          \* shard id -> instances NewShardLeader has constructed
    smReturned,       \* every <<shard id, instance>> a call has returned
    \* shutdown of the shard manager and of the endorser that owns it
    smStopped,        \* shard id -> Stop() has been called on the instance
    smDown,           \* calls of ShardManager.Shutdown that have returned
    edStopChan,       \* e.stopChan: open or closed
    edHealth,         \* the runHealthChecks goroutine: running or exited
    edPc,             \* position of each call of Endorser.Shutdown
    \* the leader endorser's dependency map and its cleanup goroutine
    swNow,            \* time.Now()
    swMap,            \* e.VariableMap: key -> entry
    swUsed,           \* keys util.GenerateUUID() has handed out
    swNextTick,       \* when the ticker fires next
    swPc,             \* position of cleanupExpiredDependencies: idle, marked
    swMarked,         \* entriesToRemove
    swGone,           \* <<key, expiry, time>> of every entry deleted
    \* endorser fan-out (ProcessProposalSuccessfullyOrError), per transaction
    enPc,             \* position of the call: idle, loop, wait, post, done
    enPrimary,        \* up.ChaincodeName
    enSim,            \* simResults: the simulation result of the proposal
    enVisited,        \* shards the for loop of line 409 has been through
    enContacted,      \* contactedShards
    enTask,           \* position of the goroutine of each involved shard
    enErrors,         \* shardErrors
    enProofs,         \* the proofs folded into the aggregate
    enHasDep,         \* hasDependency
    enMaxIdx,         \* maxCommitIndex
    enMaxTerm,        \* maxTerm
    enAborts,         \* HandleAbort calls made, per shard
    enResult,         \* what the call returned
    \* the shards as the endorser sees them
    esExists,         \* the shard is in the shard manager's map
    esProposeC,       \* the shard's ProposeC
    esCommitC,        \* the shard's CommitC
    esIndex,          \* index of the last log entry the shard applied
    esTerm,           \* the shard's consensus term
    esMap,            \* the shard's dependency map
    esAbortQ,         \* abort entries proposed and not yet applied
    esFound,          \* <<tx, shard, dependency found>> of every applied request
    \* one shard and its replicas
    shNow,            \* time.Now()
    shSent,           \* tx -> the PrepareRequest submitted for it (or NoRequest)
    shProposeC,       \* ProposeC of the replica the endorser talks to
    shPending,        \* the batcher's pending requests
    shLog,            \* the committed log of the shard
    shLeader,         \* the replica that is leader
    shTerm,           \* the consensus term
    shApplied,        \* replica -> index of the last entry it applied
    shMap,            \* replica -> its dependency map
    shCommitC,        \* replica -> the proofs it pushed to its CommitC, in order
    shSweep,          \* replica -> entriesToRemove of a sweep between its passes
    shAborted,        \* transactions HandleAbort was called for
    \* the processes of one shard, each with a shard manager of its own
    riFile,           \* the replicas sharding.json lists for the contract
    riAddr,           \* process -> its CORE_PEER_ADDRESS
    riConfig,         \* process -> the ShardConfig it built for the shard
    \* one round trip through the codec of the log entries
    cdKind,           \* batch or abort
    cdIn,             \* the PrepareRequestBatch or AbortEntry to encode
    cdData,           \* Marshal's result
    cdBack,           \* what Unmarshal made of cdData
    cdData2,          \* Marshal's result on cdBack
    cdPc,             \* new, encoded, decoded, reencoded
    \* the consensus group of one shard
    rfTerm,           \* replica -> current term
    rfRole,           \* replica -> Follower, Candidate or Leader
    rfVotedFor,       \* replica -> the candidate it voted for in its term (0: none)
    rfLog,            \* replica -> its log, a sequence of entries
    rfCommit,         \* replica -> its commit index
    rfApplied,        \* replica -> the entries it has applied, in order
    rfMsgs,           \* the vote requests and votes handed to the transports
    rfSent,           \* <<term, leader>> -> the log and commit index its appends carry
    rfAcked,          \* <<<<term, leader>>, replica>> -> highest index acknowledged
    rfStopped,        \* the replicas that were stopped
    \* the leader endorser's goroutines and queues
    ptPc,             \* position of processTransactions ("none": not started)
    clPc,             \* position of cleanupExpiredDependencies
    ptTxChannel,      \* number of transactions waiting on TxChannel
    ptResponseChannel, \* number of responses waiting on ResponseChannel
    \* the transport of one shard node (Transport struct)
    trStopC,          \* t.stopC: "open" or "closed"
    trPc,             \* position of consumeMessages
    trMessagesC,      \* leader.MessagesC(): the batches waiting, by number
    trEmitted,        \* number of batches the replica has put on MessagesC
    trClients,        \* t.clients: the peers a client exists for
    trSend,           \* message -> position of its send goroutine
    trSteps           \* message -> number of client.Step calls made for it

cbVars == <<cbState, cbFailures, cbLastFailure, cbRetryCount, cbNow, cbPc, cbAdmit, cbRet>>

smVars == <<smShards, smLock, smPc, smArg, smRet, smPath, smBuilt, smReturned>>

enVars == <<enPc, enPrimary, enSim, enVisited, enContacted, enTask, enErrors,
            enProofs, enHasDep, enMaxIdx, enMaxTerm, enAborts, enResult>>
esVars == <<esExists, esProposeC, esCommitC, esIndex, esTerm, esMap, esAbortQ, esFound>>

shVars == <<shNow, shSent, shProposeC, shPending, shLog, shLeader, shTerm, shApplied,
            shMap, shCommitC, shSweep, shAborted>>

rfVars == <<rfTerm, rfRole, rfVotedFor, rfLog, rfCommit, rfApplied, rfMsgs, rfSent, rfAcked>>

lcVars == <<smStopped, smDown, edStopChan, edHealth, edPc>>

swVars == <<swNow, swMap, swUsed, swNextTick, swPc, swMarked, swGone>>

riVars == <<riFile, riAddr, riConfig>>

cdVars == <<cdKind, cdIn, cdData, cdBack, cdData2, cdPc>>

ptVars == <<ptPc, clPc, ptTxChannel, ptResponseChannel>>

trVars == <<trStopC, trPc, trMessagesC, trEmitted, trClients, trSend, trSteps>>

vars == <<cbVars, smVars, lcVars, swVars, riVars, cdVars, enVars, esVars, shVars, rfVars,
          rfStopped, ptVars, trVars>>

\* variables a circuit-breaker step leaves alone
nonCB == <<trVars, ptVars, riVars, cdVars, rfStopped, swVars, lcVars, smVars, enVars, esVars, shVars, rfVars>>
\* variables a shard-manager step leaves alone
nonSM == <<trVars, ptVars, riVars, cdVars, rfStopped, swVars, lcVars, cbVars, enVars, esVars, shVars, rfVars>>
\* variables a step of the endorser or of its shards leaves alone
nonEN == <<trVars, ptVars, riVars, cdVars, rfStopped, swVars, lcVars, cbVars, smVars, shVars, rfVars>>
\* variables a step of the shard replicas leaves alone
nonSH == <<trVars, ptVars, riVars, cdVars, rfStopped, swVars, lcVars, cbVars, smVars, enVars, esVars, rfVars>>
\* variables a step of a shutdown leaves alone
nonLC == <<trVars, ptVars, riVars, cdVars, rfStopped, swVars, cbVars, smVars, enVars, esVars, shVars, rfVars>>
\* variables a step of the leader endorser's map leaves alone
nonSW == <<trVars, ptVars, riVars, cdVars, rfStopped, cbVars, smVars, lcVars, enVars, esVars, shVars, rfVars>>
\* variables the creation of a shard in one of its processes leaves alone
nonRI == <<trVars, ptVars, cdVars, rfStopped, cbVars, smVars, lcVars, swVars, enVars, esVars, shVars, rfVars>>
\* variables a step of the codec leaves alone
nonCD == <<trVars, ptVars, riVars, rfStopped, cbVars, smVars, lcVars, swVars, enVars, esVars, shVars, rfVars>>
\* variables a step of the leader endorser's goroutines leaves alone
nonPT == <<trVars, riVars, cdVars, rfStopped, swVars, lcVars, cbVars, smVars, enVars, esVars, shVars, rfVars>>
\* variables a step of the transport leaves alone
nonTR == <<ptVars, riVars, cdVars, rfStopped, swVars, lcVars, cbVars, smVars, enVars, esVars, shVars, rfVars>>
\* variables a step of the consensus group leaves alone
nonRF == <<trVars, ptVars, riVars, cdVars, rfStopped, swVars, lcVars, cbVars, smVars, enVars, esVars, shVars>>

\* ======================================================= circuit breaker
Callers == 1..NumCallers

CircuitClosed == "Closed"
CircuitOpen == "Open"
CircuitHalfOpen == "HalfOpen"

InitCB ==
    /\ cbState = CircuitClosed
    /\ cbFailures = 0
    /\ cbLastFailure = 0
    /\ cbRetryCount = 0
    /\ cbNow = 0
    /\ cbPc = [c \in Callers |-> "idle"]
    /\ cbAdmit = [c \in Callers |-> "none"]
    /\ cbRet = [c \in Callers |-> "none"]

\* time.Since(cb.lastFailureTime) < cb.config.Timeout
WithinTimeout == cbNow - cbLastFailure < Timeout

\* Execute, lines 64-83: the admission check, under the read lock
\* (RLock .. RUnlock; no writer runs in between, so it is one step).
ExecuteCheck(c) ==
    /\ cbPc[c] = "idle"
    /\ IF cbState = CircuitOpen
       THEN IF WithinTimeout
            THEN /\ cbPc' = [cbPc EXCEPT ![c] = "idle"]
                 /\ cbRet' = [cbRet EXCEPT ![c] = "circuit breaker is open"]
                 /\ cbAdmit' = [cbAdmit EXCEPT ![c] = "rejected"]
            ELSE /\ cbPc' = [cbPc EXCEPT ![c] = "toHalfOpen"]
                 /\ cbRet' = [cbRet EXCEPT ![c] = "none"]
                 /\ cbAdmit' = [cbAdmit EXCEPT ![c] = "probe"]
       ELSE /\ cbPc' = [cbPc EXCEPT ![c] = "run"]
            /\ cbRet' = [cbRet EXCEPT ![c] = "none"]
            /\ cbAdmit' = [cbAdmit EXCEPT ![c] =
                              IF cbState = CircuitHalfOpen THEN "halfopen" ELSE "closed"]
    /\ UNCHANGED <<cbState, cbFailures, cbLastFailure, cbRetryCount, cbNow>>
    /\ UNCHANGED nonCB

\* Execute, lines 74-77: Lock; state = HalfOpen; retryCount = 0; Unlock
ExecuteToHalfOpen(c) ==
    /\ cbPc[c] = "toHalfOpen"
    /\ cbState' = CircuitHalfOpen
    /\ cbRetryCount' = 0
    /\ cbPc' = [cbPc EXCEPT ![c] = "run"]
    /\ UNCHANGED <<cbFailures, cbLastFailure, cbNow, cbAdmit, cbRet>>
    /\ UNCHANGED nonCB

\* Execute, line 85: operation() is called, outside every lock
ExecuteInvoke(c) ==
    /\ cbPc[c] = "run"
    /\ cbPc' = [cbPc EXCEPT ![c] = "inop"]
    /\ UNCHANGED <<cbState, cbFailures, cbLastFailure, cbRetryCount, cbNow, cbAdmit, cbRet>>
    /\ UNCHANGED nonCB

\* number of failures recorded or about to be
PendingFailures == cbFailures + Cardinality({c \in Callers : cbPc[c] = "failed"})

\* operation() returns: nil or an error
OperationReturns(c) ==
    /\ cbPc[c] = "inop"
    /\ \E ok \in BOOLEAN :
          /\ ok \/ PendingFailures < MaxFailures
          /\ cbPc' = [cbPc EXCEPT ![c] = IF ok THEN "succeeded" ELSE "failed"]
    /\ UNCHANGED <<cbState, cbFailures, cbLastFailure, cbRetryCount, cbNow, cbAdmit, cbRet>>
    /\ UNCHANGED nonCB

\* Execute, lines 86-104: the failure path, under the write lock
ExecuteFailure(c) ==
    /\ cbPc[c] = "failed"
    /\ cbFailures' = cbFailures + 1
    /\ IF cbState = CircuitHalfOpen
       THEN /\ cbState' = CircuitOpen
            /\ cbLastFailure' = cbNow
       ELSE IF cbFailures + 1 >= Threshold
            THEN /\ cbState' = CircuitOpen
                 /\ cbLastFailure' = cbNow
            ELSE UNCHANGED <<cbState, cbLastFailure>>
    /\ cbPc' = [cbPc EXCEPT ![c] = "idle"]
    /\ cbRet' = [cbRet EXCEPT ![c] = "error"]
    /\ UNCHANGED <<cbRetryCount, cbNow, cbAdmit>>
    /\ UNCHANGED nonCB

\* Execute, lines 106-113: the success path, under the write lock
ExecuteSuccess(c) ==
    /\ cbPc[c] = "succeeded"
    /\ cbFailures' = 0
    /\ cbState' = CircuitClosed
    /\ cbPc' = [cbPc EXCEPT ![c] = "idle"]
    /\ cbRet' = [cbRet EXCEPT ![c] = "nil"]
    /\ UNCHANGED <<cbLastFailure, cbRetryCount, cbNow, cbAdmit>>
    /\ UNCHANGED nonCB

\* the wall clock advances
CBTick ==
    /\ cbNow < MaxTime
    /\ cbNow' = cbNow + 1
    /\ UNCHANGED <<cbState, cbFailures, cbLastFailure, cbRetryCount, cbPc, cbAdmit, cbRet>>
    /\ UNCHANGED nonCB

NextCB ==
    \/ \E c \in Callers : ExecuteCheck(c)
    \/ \E c \in Callers : ExecuteToHalfOpen(c)
    \/ \E c \in Callers : ExecuteInvoke(c)
    \/ \E c \in Callers : OperationReturns(c)
    \/ \E c \in Callers : ExecuteFailure(c)
    \/ \E c \in Callers : ExecuteSuccess(c)
    \/ CBTick

\* --------------------------------------------------------- claims C6, C7
\* C6: while the breaker is Open and less than open_timeout has elapsed
\* since last_failure, no caller of Execute invokes the wrapped operation,
\* in every interleaving of concurrent callers.
C6_OpenNeverInvokes ==
    [][\A c \in Callers :
          (cbPc[c] = "run" /\ cbPc'[c] = "inop")
              => ~(cbState = CircuitOpen /\ WithinTimeout)]_vars

\* C7: at most one call runs the operation as the HalfOpen probe: no two
\* calls admitted through the Open-to-HalfOpen transition, or admitted
\* while the breaker is HalfOpen, are inside the operation together.
C7_SingleProbe ==
    Cardinality({c \in Callers :
                    cbPc[c] = "inop" /\ cbAdmit[c] \in {"probe", "halfopen"}}) <= 1

\* a call of Execute records its failure, or its success, in this step
RecordsFailure(c) == cbPc[c] = "failed" /\ cbPc'[c] = "idle"
RecordsSuccess(c) == cbPc[c] = "succeeded" /\ cbPc'[c] = "idle"

\* C36: the breaker starts Closed with zero failures. A call that arrives
\* while it is Closed is admitted; the failure count grows by one with each
\* failure, is zero after a success and changes in no other step, so it
\* counts the failures since the last success; a success while Closed
\* leaves the breaker Closed; a Closed breaker holds fewer failures than the
\* threshold, and it opens in the step, and only in the step, in which a
\* failure brings the count to the threshold; so an Open breaker holds at
\* least threshold failures since the last success.
C36_OpensAtThreshold ==
    /\ cbState = CircuitClosed /\ cbFailures = 0
    /\ [](cbState = CircuitClosed => cbFailures < Threshold)
    /\ [](cbState = CircuitOpen => cbFailures >= Threshold)
    /\ [][/\ \A c \in Callers :
                /\ (cbPc[c] = "idle" /\ cbPc'[c] # "idle" /\ cbState = CircuitClosed)
                      => cbPc'[c] = "run"
                /\ RecordsFailure(c) => cbFailures' = cbFailures + 1
                /\ RecordsSuccess(c) => cbFailures' = 0
                /\ (RecordsSuccess(c) /\ cbState = CircuitClosed)
                      => cbState' = CircuitClosed
                /\ (RecordsFailure(c) /\ cbState = CircuitClosed)
                      => (cbState' = CircuitOpen <=> cbFailures' = Threshold)
          /\ (\A c \in Callers : ~RecordsFailure(c) /\ ~RecordsSuccess(c))
                => cbFailures' = cbFailures
          /\ (cbState = CircuitClosed /\ cbState' # CircuitClosed)
                => /\ cbState' = CircuitOpen
                   /\ cbFailures' = Threshold
                   /\ \E c \in Callers : RecordsFailure(c)]_vars

\* C37: while the breaker is HalfOpen, a call that records its success
\* moves it to Closed with the failure count 0, and a call that records its
\* failure moves it to Open with last_failure set to the present time;
\* after a probe has failed, the breaker leaves Open for the next probe
\* only when open_timeout has passed since last_failure.
C37_ProbeOutcome ==
    [][/\ \A c \in Callers :
             /\ (RecordsSuccess(c) /\ cbState = CircuitHalfOpen)
                   => (cbState' = CircuitClosed /\ cbFailures' = 0)
             /\ (RecordsFailure(c) /\ cbState = CircuitHalfOpen)
                   => (cbState' = CircuitOpen /\ cbLastFailure' = cbNow)
       /\ (/\ cbState = CircuitOpen /\ cbState' = CircuitHalfOpen
           /\ \E c \in Callers : /\ cbAdmit[c] = "probe" /\ cbPc[c] = "idle"
                                 /\ cbRet[c] = "error")
             => ~WithinTimeout]_vars

\* C26: once Open, the breaker leaves Open only for HalfOpen, by the step of
\* a call that arrived after the open timeout had passed; in particular the
\* completion of a call, successful or failed, never moves the breaker out
\* of Open and never resets the failure count while it is Open.
C26_OpenLeftOnlyByProbe ==
    [][cbState = CircuitOpen
          => /\ cbState' # CircuitOpen
                   => /\ cbState' = CircuitHalfOpen
                      /\ \E c \in Callers : /\ cbPc[c] = "toHalfOpen"
                                            /\ cbAdmit[c] = "probe"
                                            /\ cbPc'[c] = "run"
             /\ cbFailures' >= cbFailures]_vars

\* ========================================================= shard manager
Clients == 1..NumClients
\* the shard ids of shard_manager_test.go: one configured, one dynamic
ShardIds == {"contract1", "newContract"}
ConfiguredIds == {"contract1"}
NoShard == 0
\* return values of a call that has not returned a shard
NoReturn == 0
ErrReturn == -1

\* the pointer NewShardLeader returns: the n-th instance built for shard x
Instance(x, n) == (IF x = "contract1" THEN 100 ELSE 200) + n

\* NewShardManager, lines 27-49: every configured shard whose NewShardLeader
\* succeeded is in the map; a failed one is logged and skipped.
InitSM ==
    /\ \E ok \in SUBSET ConfiguredIds :
          /\ smShards = [x \in ShardIds |-> IF x \in ok THEN Instance(x, 1) ELSE NoShard]
          /\ smBuilt = [x \in ShardIds |-> IF x \in ok THEN 1 ELSE 0]
    /\ smLock = 0
    /\ smPc = [c \in Clients |-> "idle"]
    /\ smArg = [c \in Clients |-> "contract1"]
    /\ smRet = [c \in Clients |-> NoReturn]
    /\ smPath = [c \in Clients |-> "none"]
    /\ smReturned = {}


\* GetOrCreateShard, lines 53-59: the fast path under the read lock
\* (RLock .. RUnlock; a writer holding the lock blocks it).
GetOrCreateFast(c) ==
    /\ smPc[c] = "idle"
    /\ smLock = 0
    /\ \E x \in ShardIds :
          /\ smArg' = [smArg EXCEPT ![c] = x]
          /\ IF smShards[x] # NoShard
             THEN /\ smRet' = [smRet EXCEPT ![c] = smShards[x]]
                  /\ smReturned' = smReturned \cup {<<x, smShards[x]>>}
                  /\ smPath' = [smPath EXCEPT ![c] = "fast"]
                  /\ UNCHANGED smPc
             ELSE /\ smPc' = [smPc EXCEPT ![c] = "lock"]
                  /\ smRet' = [smRet EXCEPT ![c] = NoReturn]
                  /\ smPath' = [smPath EXCEPT ![c] = "slow"]
                  /\ UNCHANGED smReturned
    /\ UNCHANGED <<smShards, smLock, smBuilt>>
    /\ UNCHANGED nonSM

\* GetOrCreateShard, line 61: sm.shardsLock.Lock()
GetOrCreateLock(c) ==
    /\ smPc[c] = "lock"
    /\ smLock = 0
    /\ smLock' = c
    /\ smPc' = [smPc EXCEPT ![c] = "check"]
    /\ UNCHANGED <<smShards, smArg, smRet, smPath, smBuilt, smReturned>>
    /\ UNCHANGED nonSM

\* a mutant of the double check: the second look at the map is left out
DoubleCheckSkipped(c) ==
    /\ smPc[c] = "check"
    /\ smPc' = [smPc EXCEPT ![c] = "create"]
    /\ UNCHANGED <<smShards, smLock, smArg, smRet, smPath, smBuilt, smReturned>>
    /\ UNCHANGED nonSM

\* GetOrCreateShard, lines 64-67: the double check under the write lock;
\* the deferred Unlock runs on return.
DoubleCheck(c) ==
    /\ smPc[c] = "check"
    /\ IF smShards[smArg[c]] # NoShard
       THEN /\ smRet' = [smRet EXCEPT ![c] = smShards[smArg[c]]]
            /\ smReturned' = smReturned \cup {<<smArg[c], smShards[smArg[c]]>>}
            /\ smPc' = [smPc EXCEPT ![c] = "idle"]
            /\ smLock' = 0
       ELSE /\ smPc' = [smPc EXCEPT ![c] = "create"]
            /\ UNCHANGED <<smRet, smReturned, smLock>>
    /\ UNCHANGED <<smShards, smArg, smPath, smBuilt>>
    /\ UNCHANGED nonSM

\* GetOrCreateShard, lines 69-109: build the config, NewShardLeader, insert;
\* on an error nothing is inserted. The deferred Unlock runs on return.
CreateShard(c) ==
    /\ smPc[c] = "create"
    /\ \E ok \in BOOLEAN :
          IF ok
          THEN LET inst == Instance(smArg[c], smBuilt[smArg[c]] + 1)
               IN /\ smShards' = [smShards EXCEPT ![smArg[c]] = inst]
                  /\ smBuilt' = [smBuilt EXCEPT ![smArg[c]] = @ + 1]
                  /\ smRet' = [smRet EXCEPT ![c] = inst]
                  /\ smReturned' = smReturned \cup {<<smArg[c], inst>>}
          ELSE /\ smRet' = [smRet EXCEPT ![c] = ErrReturn]
               /\ UNCHANGED <<smShards, smBuilt, smReturned>>
    /\ smPc' = [smPc EXCEPT ![c] = "idle"]
    /\ smLock' = 0
    /\ UNCHANGED <<smArg, smPath>>
    /\ UNCHANGED nonSM

NextSM ==
    \/ \E c \in Clients : GetOrCreateFast(c)
    \/ \E c \in Clients : GetOrCreateLock(c)
    \/ \E c \in Clients : DoubleCheck(c)
    \/ \E c \in Clients : CreateShard(c)

\* ------------------------------------------------------------- claim C8
\* C8: for every shard id, however many calls of GetOrCreateShard run
\* concurrently, every call that returns a shard returns the same instance,
\* that instance is the one in the map, and it was constructed once.
C8_SameInstanceCreatedOnce ==
    \A x \in ShardIds :
       /\ smBuilt[x] <= 1
       /\ \A p \in smReturned : p[1] = x => p[2] = smShards[x]

\* two concurrent calls for one absent shard, both through the locked path,
\* have both returned
C8_Witness ==
    \E c1, c2 \in Clients :
       /\ c1 # c2
       /\ smArg[c1] = smArg[c2]
       /\ smPath[c1] = "slow" /\ smPath[c2] = "slow"
       /\ smPc[c1] = "idle" /\ smPc[c2] = "idle"
       /\ smRet[c1] \notin {NoReturn, ErrReturn}
       /\ smRet[c2] = smRet[c1]

\* ================================================================ shutdown
\* the calls of Endorser.Shutdown
ShutdownCalls == 1..NumShutdowns

\* NewEndorser, lines 194 and 219-224: stopChan is open and the health-check
\* goroutine runs; no shard has been stopped.
InitLC ==
    /\ smStopped = [x \in ShardIds |-> FALSE]
    /\ smDown = 0
    /\ edStopChan = "open"
    /\ edHealth = "running"
    /\ edPc = [k \in ShutdownCalls |-> "idle"]

\* ShardManager.Shutdown, lines 131-134: Stop() on every shard of the map;
\* a stopped shard stays stopped, no entry is removed
StopAll == [x \in ShardIds |-> smStopped[x] \/ smShards[x] # NoShard]

\* ShardManager.Shutdown, lines 127-135, called on the manager itself: the
\* whole body runs under the write lock.
SmShutdown ==
    /\ smLock = 0
    /\ smDown < NumShutdowns
    /\ smStopped' = StopAll
    /\ smDown' = smDown + 1
    /\ UNCHANGED <<edStopChan, edHealth, edPc>>
    /\ UNCHANGED nonLC

\* Endorser.Shutdown, line 233: close(e.stopChan); closing a closed channel
\* panics
EdShutdownClose(k) ==
    /\ edPc[k] = "idle"
    /\ IF edStopChan = "open"
       THEN /\ edStopChan' = "closed"
            /\ edPc' = [edPc EXCEPT ![k] = "wait"]
       ELSE /\ edPc' = [edPc EXCEPT ![k] = "panic"]
            /\ UNCHANGED edStopChan
    /\ UNCHANGED <<smStopped, smDown, edHealth>>
    /\ UNCHANGED nonLC

\* runHealthChecks, lines 558-561: the goroutine returns once stopChan is
\* closed (wg.Done is deferred)
EdHealthExit ==
    /\ edHealth = "running"
    /\ edStopChan = "closed"
    /\ edHealth' = "exited"
    /\ UNCHANGED <<smStopped, smDown, edStopChan, edPc>>
    /\ UNCHANGED nonLC

\* Endorser.Shutdown, line 234: e.wg.Wait()
EdShutdownWait(k) ==
    /\ edPc[k] = "wait"
    /\ edHealth = "exited"
    /\ ptPc \in {"none", "exited"}
    /\ clPc \in {"none", "exited"}
    /\ edPc' = [edPc EXCEPT ![k] = "manager"]
    /\ UNCHANGED <<smStopped, smDown, edStopChan, edHealth>>
    /\ UNCHANGED nonLC

\* Endorser.Shutdown, lines 235-237: e.ShardManager.Shutdown()
EdShutdownManager(k) ==
    /\ edPc[k] = "manager"
    /\ smLock = 0
    /\ smStopped' = StopAll
    /\ smDown' = smDown + 1
    /\ edPc' = [edPc EXCEPT ![k] = "done"]
    /\ UNCHANGED <<edStopChan, edHealth>>
    /\ UNCHANGED nonLC

NextLC ==
    \/ NextSM
    \/ SmShutdown
    \/ \E k \in ShutdownCalls : EdShutdownClose(k)
    \/ EdHealthExit
    \/ \E k \in ShutdownCalls : EdShutdownWait(k)
    \/ \E k \in ShutdownCalls : EdShutdownManager(k)

\* ------------------------------------ the leader endorser's goroutines
\* NewEndorser with another role than LeaderEndorser, lines 209-219: the
\* two leader goroutines are not started
InitPeer ==
    /\ ptPc = "none"
    /\ clPc = "none"
    /\ ptTxChannel = 0
    /\ ptResponseChannel = 0

\* NewEndorser with the role LeaderEndorser, lines 197-198 and 209-219: both
\* goroutines run and both queues are empty
InitLeaderEndorser ==
    /\ ptPc = "select"
    /\ clPc = "running"
    /\ ptTxChannel = 0
    /\ ptResponseChannel = 0

\* a producer puts a proposal response on TxChannel
PtSubmit ==
    /\ ptTxChannel < ChannelCap
    /\ ptTxChannel' = ptTxChannel + 1
    /\ UNCHANGED <<ptPc, clPc, ptResponseChannel>>
    /\ UNCHANGED nonPT

\* processTransactions, lines 295-300: the select takes a transaction (also
\* when stopChan is closed: a select with several ready cases picks any);
\* processTransaction returns an error and the loop continues, or the
\* goroutine goes on to deliver
PtTake ==
    /\ ptPc = "select"
    /\ ptTxChannel > 0
    /\ ptTxChannel' = ptTxChannel - 1
    /\ \E ok \in BOOLEAN : ptPc' = IF ok THEN "deliver" ELSE "select"
    /\ UNCHANGED <<clPc, ptResponseChannel>>
    /\ UNCHANGED nonPT

\* processTransactions, line 301: e.ResponseChannel <- processedTx, a send
\* that blocks while the queue is full
PtDeliver ==
    /\ ptPc = "deliver"
    /\ ptResponseChannel < ChannelCap
    /\ ptResponseChannel' = ptResponseChannel + 1
    /\ ptPc' = "select"
    /\ UNCHANGED <<clPc, ptTxChannel>>
    /\ UNCHANGED nonPT

\* processTransactions, lines 293-294: the select takes the closed stopChan
PtExit ==
    /\ ptPc = "select"
    /\ edStopChan = "closed"
    /\ ptPc' = "exited"
    /\ UNCHANGED <<clPc, ptTxChannel, ptResponseChannel>>
    /\ UNCHANGED nonPT

\* cleanupExpiredDependencies, lines 249-250: the select takes the closed
\* stopChan
ClExit ==
    /\ clPc = "running"
    /\ edStopChan = "closed"
    /\ clPc' = "exited"
    /\ UNCHANGED <<ptPc, ptTxChannel, ptResponseChannel>>
    /\ UNCHANGED nonPT

\* a reader of ResponseChannel takes a response
PtConsume ==
    /\ ptResponseChannel > 0
    /\ ptResponseChannel' = ptResponseChannel - 1
    /\ UNCHANGED <<ptPc, clPc, ptTxChannel>>
    /\ UNCHANGED nonPT

\* the leader endorser and its shutdown
NextLeaderEndorser ==
    \/ PtSubmit
    \/ PtTake
    \/ PtDeliver
    \/ PtExit
    \/ ClExit
    \/ PtConsume
    \/ \E k \in ShutdownCalls : EdShutdownClose(k)
    \/ EdHealthExit
    \/ \E k \in ShutdownCalls : EdShutdownWait(k)
    \/ \E k \in ShutdownCalls : EdShutdownManager(k)

\* every goroutine keeps running and Shutdown goes on when it can: a select
\* whose stopChan case is ready again and again takes it in the end, a
\* blocked send goes through once the queue has room; nothing makes a
\* reader take from ResponseChannel
FairLeaderEndorser ==
    /\ SF_vars(PtExit)
    /\ WF_vars(PtDeliver)
    /\ WF_vars(ClExit)
    /\ WF_vars(EdHealthExit)
    /\ \A k \in ShutdownCalls : WF_vars(EdShutdownWait(k))
    /\ \A k \in ShutdownCalls : WF_vars(EdShutdownManager(k))

\* ------------------------------------------------------------ claim C38
\* C38: a call of Endorser.Shutdown that has closed stopChan returns; the
\* shards are stopped only after the health check, the cleanup and the
\* transaction processor have exited, also when the transaction processor
\* was delivering to a full ResponseChannel when stopChan was closed.
C38_ShutdownReturns ==
    /\ \A k \in ShutdownCalls : (edPc[k] = "wait") ~> (edPc[k] = "done")
    /\ [][smStopped' # smStopped
             => /\ edHealth = "exited"
                /\ ptPc = "exited"
                /\ clPc = "exited"]_vars

\* ============================================== the transport of a node
\* The transport of node 1. Its peers are nodes 2 and 3; node 4 is not in
\* t.peers. A batch of outgoing messages holds one message for each of the
\* nodes 2, 3 and 4; a message is <<number of its batch, msg.To>>.
Peers == {2, 3}
Targets == {2, 3, 4}
Messages == (1..NumBatches) \X Targets

\* NewTransport and Start, lines 86-119: stopC is open, there is no client,
\* consumeMessages runs
InitTR ==
    /\ trStopC = "open"
    /\ trPc = "select"
    /\ trMessagesC = <<>>
    /\ trEmitted = 0
    /\ trClients = {}
    /\ trSend = [m \in Messages |-> "none"]
    /\ trSteps = [m \in Messages |-> 0]

\* the consensus loop of the replica puts its next batch of outgoing
\* messages on MessagesC
TrEmit ==
    /\ trEmitted < NumBatches
    /\ Len(trMessagesC) < MessagesCap
    /\ trEmitted' = trEmitted + 1
    /\ trMessagesC' = Append(trMessagesC, trEmitted + 1)
    /\ UNCHANGED <<trStopC, trPc, trClients, trSend, trSteps>>
    /\ UNCHANGED nonTR

\* a mutant of consumeMessages: the messages of a batch are sent by the
\* consumer itself, which takes the next batch when they are through
TrTakeInline ==
    /\ trPc = "select"
    /\ trMessagesC # <<>>
    /\ \A m \in Messages : trSend[m] \in {"none", "sent", "dropped"}
    /\ trMessagesC' = Tail(trMessagesC)
    /\ trSend' = [m \in Messages |->
                     IF m[1] = Head(trMessagesC) THEN "getClient" ELSE trSend[m]]
    /\ UNCHANGED <<trStopC, trPc, trEmitted, trClients, trSteps>>
    /\ UNCHANGED nonTR

\* consumeMessages, lines 150-155: the select takes a batch (also when stopC
\* is closed: a select with several ready cases picks any) and starts one
\* goroutine per message
TrTake ==
    /\ trPc = "select"
    /\ trMessagesC # <<>>
    /\ trMessagesC' = Tail(trMessagesC)
    /\ trSend' = [m \in Messages |->
                     IF m[1] = Head(trMessagesC) THEN "getClient" ELSE trSend[m]]
    /\ UNCHANGED <<trStopC, trPc, trEmitted, trClients, trSteps>>
    /\ UNCHANGED nonTR

\* consumeMessages, lines 156-158: the select takes the closed stopC
TrExit ==
    /\ trPc = "select"
    /\ trStopC = "closed"
    /\ trPc' = "exited"
    /\ UNCHANGED <<trStopC, trMessagesC, trEmitted, trClients, trSend, trSteps>>
    /\ UNCHANGED nonTR

\* send, lines 163-168, and getClient, lines 190-222: the client of msg.To
\* is found or made; for a node that is not in t.peers, or when the dial
\* fails, the error is logged and the goroutine returns
TrGetClient(m) ==
    /\ trSend[m] = "getClient"
    /\ IF m[2] \in trClients
       THEN /\ trSend' = [trSend EXCEPT ![m] = "step"]
            /\ UNCHANGED trClients
       ELSE IF m[2] \notin Peers
            THEN /\ trSend' = [trSend EXCEPT ![m] = "dropped"]
                 /\ UNCHANGED trClients
            ELSE \E dialed \in BOOLEAN :
                    IF dialed
                    THEN /\ trClients' = trClients \cup {m[2]}
                         /\ trSend' = [trSend EXCEPT ![m] = "step"]
                    ELSE /\ trSend' = [trSend EXCEPT ![m] = "dropped"]
                         /\ UNCHANGED trClients
    /\ UNCHANGED <<trStopC, trPc, trMessagesC, trEmitted, trSteps>>
    /\ UNCHANGED nonTR

\* send, lines 170-187: the message is marshalled and client.Step is called
\* once; it returns, with or without an error, at some moment within its
\* timeout; an error is logged and the goroutine returns
TrStep(m) ==
    /\ trSend[m] = "step"
    /\ trSteps' = [trSteps EXCEPT ![m] = @ + 1]
    /\ \E ok \in BOOLEAN :
          trSend' = [trSend EXCEPT ![m] = IF ok THEN "sent" ELSE "dropped"]
    /\ UNCHANGED <<trStopC, trPc, trMessagesC, trEmitted, trClients>>
    /\ UNCHANGED nonTR

\* Stop, lines 122-123: stopC is closed
TrStop ==
    /\ trStopC = "open"
    /\ trStopC' = "closed"
    /\ UNCHANGED <<trPc, trMessagesC, trEmitted, trClients, trSend, trSteps>>
    /\ UNCHANGED nonTR

NextTR ==
    \/ TrEmit
    \/ TrTake
    \/ TrExit
    \/ \E m \in Messages : TrGetClient(m)
    \/ \E m \in Messages : TrStep(m)
    \/ TrStop

\* consumeMessages keeps running; nothing is assumed about how fast a send
\* goroutine gets on
FairTR == WF_vars(TrTake)

\* ------------------------------------------------------------ claim C39
\* C39: whatever the sends in flight do, every batch the replica has put on
\* MessagesC is taken by the transport unless the transport was stopped and
\* its consumer has exited; client.Step is called at most once for a
\* message; and a send that fails is dropped: the step in which it fails
\* changes nothing but the state of that send, and the message is not taken
\* up again.
C39_SendsNeverBlock ==
    /\ \A b \in 1..NumBatches :
          (\E i \in 1..Len(trMessagesC) : trMessagesC[i] = b)
              ~> (\/ \A i \in 1..Len(trMessagesC) : trMessagesC[i] # b
                  \/ trPc = "exited")
    /\ [](\A m \in Messages : trSteps[m] <= 1)
    /\ [][\A m \in Messages :
             /\ (trSend[m] # "dropped" /\ trSend'[m] = "dropped")
                   => /\ trMessagesC' = trMessagesC
                      /\ trPc' = trPc
                      /\ trEmitted' = trEmitted
                      /\ \A n \in Messages \ {m} : trSend'[n] = trSend[n]
             /\ trSend[m] = "dropped" => trSend'[m] = "dropped"]_vars

\* the transport is running and has taken the second batch while the send
\* to node 2 of the first batch is still inside client.Step, the send to
\* node 3 has failed and the send to node 4 was dropped for lack of a peer
C39_Witness ==
    /\ trPc = "select"
    /\ trStopC = "open"
    /\ trSend[<<1, 2>>] = "step"
    /\ trSend[<<1, 3>>] = "dropped" /\ trSteps[<<1, 3>>] = 1
    /\ trSend[<<1, 4>>] = "dropped" /\ trSteps[<<1, 4>>] = 0
    /\ \A to \in Targets : trSend[<<2, to>>] # "none"

\* ------------------------------------------------------------ claim C13
\* C13: shutdown is idempotent: no call of Endorser.Shutdown, the first or a
\* later one, panics, and once a shutdown of the shard manager has returned
\* a later shutdown leaves every stopped shard stopped.
C13_ShutdownIdempotent ==
    /\ [](\A k \in ShutdownCalls : edPc[k] # "panic")
    /\ [][smDown >= 1 /\ smDown' > smDown
            => \A x \in ShardIds : smStopped[x] => smStopped'[x]]_vars

\* the ShuttingDown error
ErrShuttingDown == -2

\* client c begins a call of GetOrCreateShard in this step
Begins(c) ==
    /\ smPc[c] = "idle"
    /\ \/ smPc'[c] # "idle"
       \/ smRet'[c] # smRet[c]
       \/ smPath'[c] # smPath[c]
       \/ smArg'[c] # smArg[c]

\* ------------------------------------------------------------ claim C18
\* C18: once a shutdown of the shard manager has returned, every call of
\* GetOrCreateShard that begins is answered with the ShuttingDown error at
\* once: it returns no shard, stopped or new, and builds none.
C18_AfterShutdownShuttingDown ==
    [][smDown >= 1 =>
          \A c \in Clients :
             Begins(c) => /\ smPc'[c] = "idle"
                          /\ smRet'[c] = ErrShuttingDown
                          /\ smBuilt' = smBuilt]_vars

\* shard.GetRequestsHandled(): the shards of the manager have been handed
\* no request
GetRequestsHandled(x) == 0

\* a mutant of GetShardMetrics: the stopped shards are left out
GetShardMetricsRunning ==
    [x \in {y \in ShardIds : smShards[y] # NoShard /\ ~smStopped[y]} |-> GetRequestsHandled(x)]

\* GetShardMetrics, lines 138-148: one entry per entry of sm.shards
GetShardMetrics ==
    [x \in {y \in ShardIds : smShards[y] # NoShard} |-> GetRequestsHandled(x)]

\* ------------------------------------------------------------ claim C20
\* C20: the keys of the metrics are the ids of the shards that have been
\* built, by the constructor or by GetOrCreateShard, and a key that is
\* present stays in every later state, shutdown included.
C20_MetricsKeys ==
    /\ [](DOMAIN GetShardMetrics = {x \in ShardIds : smBuilt[x] >= 1})
    /\ [][DOMAIN GetShardMetrics \subseteq DOMAIN GetShardMetrics']_vars

\* the configured shard and a shard created by GetOrCreateShard are both in
\* the metrics after a shutdown
C20_Witness ==
    /\ smDown >= 1
    /\ smPath[1] = "slow"
    /\ smRet[1] = smShards["newContract"]
    /\ DOMAIN GetShardMetrics = {"contract1", "newContract"}

\* ========================================== proofs and the dependency map
\* Shared by the endorser's view of a shard and by the shard replica.

\* dependency-map entries live for TTL ticks (expiry_duration)
TTL == 1

\* fmt.Sprintf("%s:%d:%s", shardID, commitIndex, txID)
Sprintf(shardID, commitIndex, txID) ==
    shardID \o ":" \o ToString(commitIndex) \o ":" \o txID

\* the leader's MAC over (shard_id, commit_index, tx_id) under the shared key
signProof(shardID, commitIndex, txID) == Sprintf(shardID, commitIndex, txID)

\* a mutant of PrepareProof: the proof names the index after the entry's
PrepareProofNextIndex(txID, shardID, idx, leader, term) ==
    [TxID |-> txID, ShardID |-> shardID, CommitIndex |-> idx + 1, LeaderID |-> leader,
     Term |-> term, Signature |-> signProof(shardID, idx + 1, txID)]

\* PrepareProof{tx_id, shard_id, commit_index, leader_id, term, signature}
PrepareProof(txID, shardID, idx, leader, term) ==
    [TxID |-> txID, ShardID |-> shardID, CommitIndex |-> idx, LeaderID |-> leader,
     Term |-> term, Signature |-> signProof(shardID, idx, txID)]

\* a mutant of verifyProof: the expected signature lists the tx id first
verifyProofSwapped(proof) ==
    /\ proof.TxID # ""
    /\ proof.ShardID # ""
    /\ proof.Signature = Sprintf(proof.TxID, proof.CommitIndex, proof.ShardID)

\* Endorser.verifyProof
verifyProof(proof) ==
    /\ proof.TxID # ""
    /\ proof.ShardID # ""
    /\ proof.Signature = Sprintf(proof.ShardID, proof.CommitIndex, proof.TxID)

EmptyMap == [k \in {} |-> 0]

\* a mutant of the conflict test: only the keys read are looked up
ConflictsOfReads(map, req) ==
    {k \in DOMAIN req.ReadSet : k \in DOMAIN map /\ map[k].writer # req.TxID}

\* the keys of a request that hit an entry another transaction wrote
Conflicts(map, req) ==
    {k \in (DOMAIN req.ReadSet) \cup (DOMAIN req.WriteSet) :
        k \in DOMAIN map /\ map[k].writer # req.TxID}

\* a mutant of check_and_update: a key that has an entry keeps it
CheckAndUpdateKeepFirst(map, req, now) ==
    LET dep == Conflicts(map, req) # {}
    IN [k \in (DOMAIN map) \cup (DOMAIN req.WriteSet) |->
           IF k \in DOMAIN map
           THEN map[k]
           ELSE [value |-> req.WriteSet[k], writer |-> req.TxID,
                 expiry |-> now + TTL, hasDep |-> dep]]

\* check_and_update: the map after the request's writes are recorded
CheckAndUpdate(map, req, now) ==
    LET dep == Conflicts(map, req) # {}
    IN [k \in (DOMAIN map) \cup (DOMAIN req.WriteSet) |->
           IF k \in DOMAIN req.WriteSet
           THEN [value |-> req.WriteSet[k], writer |-> req.TxID,
                 expiry |-> now + TTL, hasDep |-> dep]
           ELSE map[k]]

\* a mutant of remove_writer: every entry is removed
RemoveWriterAll(map, txID) == EmptyMap

\* remove_writer: applying AbortEntry{tx_id}
RemoveWriter(map, txID) ==
    [k \in {j \in DOMAIN map : map[j].writer # txID} |-> map[k]]

\* apply of a committed Batch at log index idx: the requests in order
RECURSIVE ApplyBatch(_, _, _, _, _, _, _)
ApplyBatch(map, reqs, shardID, idx, leader, term, now) ==
    IF reqs = <<>>
    THEN [map |-> map, proofs |-> <<>>, found |-> {}]
    ELSE LET req == Head(reqs)
             rest == ApplyBatch(CheckAndUpdate(map, req, now), Tail(reqs),
                                shardID, idx, leader, term, now)
         IN [map |-> rest.map,
             proofs |-> <<PrepareProof(req.TxID, shardID, idx, leader, term)>> \o rest.proofs,
             found |-> {<<req.TxID, shardID, Conflicts(map, req) # {}>>} \cup rest.found]

\* ======================================================= endorser fan-out
Txs == 1..NumTx
TxId(t) == "tx" \o ToString(t)

\* chaincode namespaces; lscc is a system chaincode (Support.IsSysCC)
Namespaces == {"alpha", "beta"}
IsSysCC(ns) == ns = "lscc"

\* the simulation results tried, as the reads and writes of the public
\* state: namespace:key -> the value written, or the version read
\* (BlockNum, TxNum)
Simulations ==
    { [Writes |-> (<<"alpha", "k1">> :> "v"), Reads |-> EmptyMap],
      [Writes |-> (<<"alpha", "k2">> :> "v"), Reads |-> EmptyMap],
      [Writes |-> (<<"alpha", "k1">> :> "v") @@ (<<"beta", "k1">> :> "v"),
       Reads |-> EmptyMap],
      [Writes |-> EmptyMap, Reads |-> (<<"alpha", "k1">> :> <<0, 1>>)] }

NoSimulation == [Writes |-> EmptyMap, Reads |-> EmptyMap]

\* fmt.Sprintf("%d-%d", read.Version.BlockNum, read.Version.TxNum)
versionBytes(version) == ToString(version[1]) \o "-" \o ToString(version[2])

\* extractTransactionDependencies: the keys written with the value written,
\* then the keys read and not written with the version read; the namespaces
\* of system chaincodes are skipped
extractTransactionDependencies(simResult) ==
    LET writes == {k \in DOMAIN simResult.Writes : ~IsSysCC(k[1])}
        reads == {k \in DOMAIN simResult.Reads : ~IsSysCC(k[1])}
    IN [k \in writes \cup reads |->
           IF k \in writes THEN simResult.Writes[k]
                           ELSE versionBytes(simResult.Reads[k])]

\* line 373: dependencies, err := e.extractTransactionDependencies(simResults)
dependencies(t) == extractTransactionDependencies(enSim[t])

\* strings.Split(varKey, ":")[0]
NamespaceOf(varKey) == varKey[1]

\* a mutant of lines 393-397: the primary chaincode is not added
InvolvedShardsOfKeys(t) ==
    {NamespaceOf(k) : k \in {j \in DOMAIN dependencies(t) :
                               NamespaceOf(j) # "" /\ ~IsSysCC(NamespaceOf(j))}}

\* involvedShards, lines 379-398: the namespaces of the keys, and the primary
InvolvedShards(t) ==
    {NamespaceOf(k) : k \in {j \in DOMAIN dependencies(t) :
                               NamespaceOf(j) # "" /\ ~IsSysCC(NamespaceOf(j))}}
        \cup {enPrimary[t]}

\* involvedShards[shardName]: the keys of one namespace
WriteSetOf(t, ns) ==
    [k \in {j \in DOMAIN dependencies(t) : NamespaceOf(j) = ns} |-> dependencies(t)[k]]

\* the PrepareRequest of lines 428-434: every key goes into the WriteSet
PrepareRequest(t, ns) ==
    [TxID |-> TxId(t), ShardID |-> ns, ReadSet |-> EmptyMap, WriteSet |-> WriteSetOf(t, ns)]

NoResult == [kind |-> "none"]

InitEN ==
    /\ enPc = [t \in Txs |-> "idle"]
    /\ enPrimary = [t \in Txs |-> "alpha"]
    /\ enSim = [t \in Txs |-> NoSimulation]
    /\ enVisited = [t \in Txs |-> {}]
    /\ enContacted = [t \in Txs |-> {}]
    /\ enTask = [t \in Txs |-> [ns \in Namespaces |-> "none"]]
    /\ enErrors = [t \in Txs |-> {}]
    /\ enProofs = [t \in Txs |-> {}]
    /\ enHasDep = [t \in Txs |-> FALSE]
    /\ enMaxIdx = [t \in Txs |-> 0]
    /\ enMaxTerm = [t \in Txs |-> 0]
    /\ enAborts = [t \in Txs |-> [ns \in Namespaces |-> 0]]
    /\ enResult = [t \in Txs |-> NoResult]
    /\ esExists = [ns \in Namespaces |-> FALSE]
    /\ esProposeC = [ns \in Namespaces |-> <<>>]
    /\ esCommitC = [ns \in Namespaces |-> <<>>]
    /\ esIndex = [ns \in Namespaces |-> 0]
    /\ esTerm = [ns \in Namespaces |-> 1]
    /\ esMap = [ns \in Namespaces |-> EmptyMap]
    /\ esAbortQ = [ns \in Namespaces |-> <<>>]
    /\ esFound = {}

\* lines 308-406: the proposal of chaincode is simulated with the result
\* simResults; unless there is no simulator or the chaincode is a system
\* chaincode (line 366), the fan-out begins
EnBegin(t, simResults, chaincode) ==
    /\ enPc[t] = "idle"
    /\ \A u \in Txs : u < t => enPc[u] # "idle"
    /\ enResult[t] = NoResult
    /\ enPrimary' = [enPrimary EXCEPT ![t] = chaincode]
    /\ enSim' = [enSim EXCEPT ![t] = simResults]
    /\ enPc' = [enPc EXCEPT ![t] = IF IsSysCC(chaincode) THEN "post" ELSE "loop"]
    /\ UNCHANGED <<enVisited, enContacted, enTask, enErrors, enProofs, enHasDep,
                   enMaxIdx, enMaxTerm, enAborts, enResult>>
    /\ UNCHANGED esVars
    /\ UNCHANGED nonEN

\* a proposal of chaincode alpha arrives (transactions are numbered in the
\* order in which their calls begin)
EnStart(t) == \E simResults \in Simulations : EnBegin(t, simResults, "alpha")

\* lines 409-423: one turn of the loop over involvedShards (a Go map, so in
\* any order): GetOrCreateShard, then the goroutine is started
EnAcquire(t, ns) ==
    /\ enPc[t] = "loop"
    /\ ns \in InvolvedShards(t) \ enVisited[t]
    /\ enVisited' = [enVisited EXCEPT ![t] = @ \cup {ns}]
    /\ \E ok \in BOOLEAN :
          /\ esExists[ns] => ok
          /\ IF ok
             THEN /\ esExists' = [esExists EXCEPT ![ns] = TRUE]
                  /\ enContacted' = [enContacted EXCEPT ![t] = @ \cup {ns}]
                  /\ enTask' = [enTask EXCEPT ![t][ns] = "send"]
                  /\ UNCHANGED enErrors
             ELSE /\ enErrors' = [enErrors EXCEPT ![t] = @ \cup {<<ns, "failed to get shard">>}]
                  /\ UNCHANGED <<esExists, enContacted, enTask>>
    /\ UNCHANGED <<enPc, enPrimary, enSim, enProofs, enHasDep, enMaxIdx, enMaxTerm,
                   enAborts, enResult>>
    /\ UNCHANGED <<esProposeC, esCommitC, esIndex, esTerm, esMap, esAbortQ, esFound>>
    /\ UNCHANGED nonEN

\* lines 436-438: the goroutine's request goes onto ProposeC
EnTaskSend(t, ns) ==
    /\ enTask[t][ns] = "send"
    /\ Len(esProposeC[ns]) < ProposeCap
    /\ esProposeC' = [esProposeC EXCEPT ![ns] = Append(@, PrepareRequest(t, ns))]
    /\ enTask' = [enTask EXCEPT ![t][ns] = "recv"]
    /\ UNCHANGED <<enPc, enPrimary, enSim, enVisited, enContacted, enErrors, enProofs,
                   enHasDep, enMaxIdx, enMaxTerm, enAborts, enResult>>
    /\ UNCHANGED <<esExists, esCommitC, esIndex, esTerm, esMap, esAbortQ, esFound>>
    /\ UNCHANGED nonEN

\* lines 439-443: ctx.Done() (context.WithTimeout with DefaultPrepareTimeout,
\* lines 400-401) fires while the goroutine waits to submit
EnTaskSendTimeout(t, ns) ==
    /\ enTask[t][ns] = "send"
    /\ enErrors' = [enErrors EXCEPT ![t] = @ \cup {<<ns, "timeout submitting">>}]
    /\ enTask' = [enTask EXCEPT ![t][ns] = "done"]
    /\ UNCHANGED <<enPc, enPrimary, enSim, enVisited, enContacted, enProofs,
                   enHasDep, enMaxIdx, enMaxTerm, enAborts, enResult>>
    /\ UNCHANGED esVars
    /\ UNCHANGED nonEN

\* lines 446-463: a proof arrives on the shard's CommitC, is verified and
\* folded into the aggregate
EnTaskRecv(t, ns) ==
    /\ enTask[t][ns] = "recv"
    /\ esCommitC[ns] # <<>>
    /\ LET proof == Head(esCommitC[ns])
       IN IF ~verifyProof(proof)
          THEN /\ enErrors' = [enErrors EXCEPT ![t] = @ \cup {<<ns, "invalid proof">>}]
               /\ UNCHANGED <<enProofs, enHasDep, enMaxIdx, enMaxTerm>>
          ELSE /\ enProofs' = [enProofs EXCEPT ![t] = @ \cup {<<ns, proof>>}]
               /\ enHasDep' = [enHasDep EXCEPT ![t] = @ \/ proof.CommitIndex > 1]
               /\ IF proof.CommitIndex > enMaxIdx[t]
                  THEN /\ enMaxIdx' = [enMaxIdx EXCEPT ![t] = proof.CommitIndex]
                       /\ enMaxTerm' = [enMaxTerm EXCEPT ![t] = proof.Term]
                  ELSE UNCHANGED <<enMaxIdx, enMaxTerm>>
               /\ UNCHANGED enErrors
    /\ esCommitC' = [esCommitC EXCEPT ![ns] = Tail(@)]
    /\ enTask' = [enTask EXCEPT ![t][ns] = "done"]
    /\ UNCHANGED <<enPc, enPrimary, enSim, enVisited, enContacted,
                   enAborts, enResult>>
    /\ UNCHANGED <<esExists, esProposeC, esIndex, esTerm, esMap, esAbortQ, esFound>>
    /\ UNCHANGED nonEN

\* a mutant of lines 464-467: on the deadline the goroutine submits again
EnTaskRecvTimeoutResend(t, ns) ==
    /\ enTask[t][ns] = "recv"
    /\ enErrors' = [enErrors EXCEPT ![t] = @ \cup {<<ns, "timeout waiting for proof">>}]
    /\ enTask' = [enTask EXCEPT ![t][ns] = "send"]
    /\ UNCHANGED <<enPc, enPrimary, enSim, enVisited, enContacted, enProofs,
                   enHasDep, enMaxIdx, enMaxTerm, enAborts, enResult>>
    /\ UNCHANGED esVars
    /\ UNCHANGED nonEN

\* a mutant of the wait for the proof: ctx.Done() is not selected on
EnTaskRecvNoDeadline(t, ns) == FALSE /\ UNCHANGED vars

\* lines 464-467: ctx.Done() fires while the goroutine waits for the proof
EnTaskRecvTimeout(t, ns) ==
    /\ enTask[t][ns] = "recv"
    /\ enErrors' = [enErrors EXCEPT ![t] = @ \cup {<<ns, "timeout waiting for proof">>}]
    /\ enTask' = [enTask EXCEPT ![t][ns] = "done"]
    /\ UNCHANGED <<enPc, enPrimary, enSim, enVisited, enContacted, enProofs,
                   enHasDep, enMaxIdx, enMaxTerm, enAborts, enResult>>
    /\ UNCHANGED esVars
    /\ UNCHANGED nonEN

\* a mutant of the test of line 474: shard errors are not looked at
FanOutFailedNever(t) == FALSE

\* line 474: len(shardErrors) > 0
FanOutFailed(t) == enErrors[t] # {}

\* a mutant of the trailer: HasDependency says that some proof was folded
TrailerAnyProof(t) ==
    [HasDependency |-> enMaxIdx[t] > 0, DependentTxID |-> "",
     ShardCommitIndex |-> enMaxIdx[t], ProofTerm |-> enMaxTerm[t]]

\* the trailer of lines 529-530
Trailer(t) ==
    [HasDependency |-> enHasDep[t], DependentTxID |-> "",
     ShardCommitIndex |-> enMaxIdx[t], ProofTerm |-> enMaxTerm[t]]

\* a mutant of the abort loop: HandleAbort goes to every involved shard
EnWaitAbortInvolved(t) ==
    /\ enPc[t] = "loop"
    /\ enVisited[t] = InvolvedShards(t)
    /\ \A ns \in Namespaces : enTask[t][ns] \in {"none", "done"}
    /\ IF FanOutFailed(t)
       THEN /\ enAborts' = [enAborts EXCEPT ![t] =
                              [ns \in Namespaces |->
                                  IF ns \in InvolvedShards(t) THEN @[ns] + 1 ELSE @[ns]]]
            /\ esAbortQ' = [ns \in Namespaces |->
                              IF ns \in InvolvedShards(t)
                              THEN Append(esAbortQ[ns], TxId(t)) ELSE esAbortQ[ns]]
            /\ enResult' = [enResult EXCEPT ![t] = [kind |-> "ShardFailure"]]
            /\ enPc' = [enPc EXCEPT ![t] = "done"]
       ELSE /\ enPc' = [enPc EXCEPT ![t] = "post"]
            /\ UNCHANGED <<enAborts, esAbortQ, enResult>>
    /\ UNCHANGED <<enPrimary, enSim, enVisited, enContacted, enTask, enErrors, enProofs,
                   enHasDep, enMaxIdx, enMaxTerm>>
    /\ UNCHANGED <<esExists, esProposeC, esCommitC, esIndex, esTerm, esMap, esFound>>
    /\ UNCHANGED nonEN

\* lines 472-480: wg.Wait(); on any shard error HandleAbort goes to every
\* contacted shard and the call returns the ShardFailure error
EnWait(t) ==
    /\ enPc[t] = "loop"
    /\ enVisited[t] = InvolvedShards(t)
    /\ \A ns \in Namespaces : enTask[t][ns] \in {"none", "done"}
    /\ IF FanOutFailed(t)
       THEN /\ enAborts' = [enAborts EXCEPT ![t] =
                              [ns \in Namespaces |->
                                  IF ns \in enContacted[t] THEN @[ns] + 1 ELSE @[ns]]]
            /\ esAbortQ' = [ns \in Namespaces |->
                              IF ns \in enContacted[t]
                              THEN Append(esAbortQ[ns], TxId(t)) ELSE esAbortQ[ns]]
            /\ enResult' = [enResult EXCEPT ![t] = [kind |-> "ShardFailure"]]
            /\ enPc' = [enPc EXCEPT ![t] = "done"]
       ELSE /\ enPc' = [enPc EXCEPT ![t] = "post"]
            /\ UNCHANGED <<enAborts, esAbortQ, enResult>>
    /\ UNCHANGED <<enPrimary, enSim, enVisited, enContacted, enTask, enErrors, enProofs,
                   enHasDep, enMaxIdx, enMaxTerm>>
    /\ UNCHANGED <<esExists, esProposeC, esCommitC, esIndex, esTerm, esMap, esFound>>
    /\ UNCHANGED nonEN

\* lines 483-538: the response payload is built and endorsed; a marshalling
\* or plugin error, or a chaincode status of 400 or more, ends the call
\* with no endorsement
EnPost(t) ==
    /\ enPc[t] = "post"
    /\ \E endorsed \in BOOLEAN :
          enResult' = [enResult EXCEPT ![t] =
                          IF endorsed
                          THEN [kind |-> "endorsed", trailer |-> Trailer(t)]
                          ELSE [kind |-> "noEndorsement"]]
    /\ enPc' = [enPc EXCEPT ![t] = "done"]
    /\ UNCHANGED <<enPrimary, enSim, enVisited, enContacted, enTask, enErrors, enProofs,
                   enHasDep, enMaxIdx, enMaxTerm, enAborts>>
    /\ UNCHANGED esVars
    /\ UNCHANGED nonEN

\* ------------------------------------------ the shards the endorser talks to
\* the batcher takes the next request off ProposeC and, on its timer,
\* proposes what it holds as one Batch; the batch is committed at the next
\* log index, in the term of the leader of the moment, and applied; the
\* proofs go to CommitC in request order
EsCommitBatch(ns) ==
    /\ esExists[ns]
    /\ \E n \in 1..Len(esProposeC[ns]), term \in esTerm[ns]..MaxTerm :
          LET reqs == SubSeq(esProposeC[ns], 1, n)
              r == ApplyBatch(esMap[ns], reqs, ns, esIndex[ns] + 1, 1, term, 0)
          IN /\ esProposeC' = [esProposeC EXCEPT ![ns] = SubSeq(@, n + 1, Len(@))]
             /\ esIndex' = [esIndex EXCEPT ![ns] = @ + 1]
             /\ esTerm' = [esTerm EXCEPT ![ns] = term]
             /\ esMap' = [esMap EXCEPT ![ns] = r.map]
             /\ esCommitC' = [esCommitC EXCEPT ![ns] = @ \o r.proofs]
             /\ esFound' = esFound \cup r.found
    /\ UNCHANGED <<esExists, esAbortQ>>
    /\ UNCHANGED enVars
    /\ UNCHANGED nonEN

\* an AbortEntry proposed by HandleAbort is committed and applied
EsApplyAbort(ns) ==
    /\ esAbortQ[ns] # <<>>
    /\ esIndex' = [esIndex EXCEPT ![ns] = @ + 1]
    /\ esMap' = [esMap EXCEPT ![ns] = RemoveWriter(@, Head(esAbortQ[ns]))]
    /\ esAbortQ' = [esAbortQ EXCEPT ![ns] = Tail(@)]
    /\ UNCHANGED <<esExists, esProposeC, esCommitC, esTerm, esFound>>
    /\ UNCHANGED enVars
    /\ UNCHANGED nonEN

NextEN ==
    \/ \E t \in Txs : EnStart(t)
    \/ \E t \in Txs, ns \in Namespaces : EnAcquire(t, ns)
    \/ \E t \in Txs, ns \in Namespaces : EnTaskSend(t, ns)
    \/ \E t \in Txs, ns \in Namespaces : EnTaskSendTimeout(t, ns)
    \/ \E t \in Txs, ns \in Namespaces : EnTaskRecv(t, ns)
    \/ \E t \in Txs, ns \in Namespaces : EnTaskRecvTimeout(t, ns)
    \/ \E t \in Txs : EnWait(t)
    \/ \E t \in Txs : EnPost(t)
    \/ \E ns \in Namespaces : EsCommitBatch(ns)
    \/ \E ns \in Namespaces : EsApplyAbort(ns)

\* --------------------------------------------------------- claims C2, C4, C5
\* the shards whose proofs were folded into the aggregate of t
ProofShards(t) == {p[1] : p \in enProofs[t]}

\* C2 as stated: a finished call either carries an endorsement built from one
\* verified proof per involved shard, or carries no proof-derived data and an
\* abort for the tx id went to every involved shard.
C2_AllOrNothing ==
    \A t \in Txs :
        enPc[t] = "done" =>
            \/ /\ enResult[t].kind = "endorsed"
               /\ ProofShards(t) = InvolvedShards(t)
               /\ Cardinality(enProofs[t]) = Cardinality(InvolvedShards(t))
               /\ \A p \in enProofs[t] : verifyProof(p[2])
            \/ /\ enResult[t].kind # "endorsed"
               /\ \A ns \in InvolvedShards(t) : enAborts[t][ns] >= 1

\* C2 amended: a finished call (a) had no shard error, folded exactly one
\* verified proof per involved shard, aborted nothing, and either returns the
\* endorsement with the trailer of those proofs or, when the response could
\* not be endorsed, returns no endorsement; or (b) had a shard error, returns
\* ShardFailure with no proof-derived data, and HandleAbort went exactly once
\* to each shard obtained from the shard manager and to no other shard.
C2_AllOrNothingContacted ==
    \A t \in Txs :
        enPc[t] = "done" =>
            \/ /\ enResult[t].kind \in {"endorsed", "noEndorsement"}
               /\ enErrors[t] = {}
               /\ ProofShards(t) = InvolvedShards(t)
               /\ Cardinality(enProofs[t]) = Cardinality(InvolvedShards(t))
               /\ \A p \in enProofs[t] : verifyProof(p[2])
               /\ \A ns \in Namespaces : enAborts[t][ns] = 0
               /\ enResult[t].kind = "endorsed" => enResult[t].trailer = Trailer(t)
               /\ enResult[t].kind = "noEndorsement" => DOMAIN enResult[t] = {"kind"}
            \/ /\ enResult[t].kind = "ShardFailure"
               /\ DOMAIN enResult[t] = {"kind"}
               /\ enErrors[t] # {}
               /\ enContacted[t] \subseteq InvolvedShards(t)
               /\ \A ns \in Namespaces :
                     enAborts[t][ns] = IF ns \in enContacted[t] THEN 1 ELSE 0

\* a call over two involved shards failed after one shard could not be
\* obtained: the abort went to the other shard only
C2_Witness ==
    \E t \in Txs :
        /\ enPc[t] = "done"
        /\ enResult[t].kind = "ShardFailure"
        /\ Cardinality(InvolvedShards(t)) = 2
        /\ Cardinality(enContacted[t]) = 1
        /\ enProofs[t] # {}
        /\ \A ns \in enContacted[t] : enAborts[t][ns] = 1

\* C4: an endorsed transaction whose request, when applied on some involved
\* shard, hit an entry written by another transaction has HasDependency=true
\* in its trailer.
C4_ConflictsReported ==
    \A t \in Txs :
        (/\ enResult[t].kind = "endorsed"
         /\ \E ns \in InvolvedShards(t) : <<TxId(t), ns, TRUE>> \in esFound)
            => enResult[t].trailer.HasDependency

\* C5: an endorsed transaction whose request, applied on every involved
\* shard, hit no entry written by another transaction has
\* HasDependency=false in its trailer.
C5_IndependentReported ==
    \A t \in Txs :
        (/\ enResult[t].kind = "endorsed"
         /\ \A ns \in InvolvedShards(t) :
               /\ <<TxId(t), ns, FALSE>> \in esFound
               /\ <<TxId(t), ns, TRUE>> \notin esFound)
            => ~enResult[t].trailer.HasDependency


\* ------------------------------------------------------------ claim C21
\* the proofs folded into the aggregate of transaction t
ProofsOf(t) == {p[2] : p \in enProofs[t]}

\* C27: when every one of the N involved shards returned a verified proof,
\* the trailer of the endorsed response has HasDependency true exactly when
\* some proof has a commit_index above 1, ShardCommitIndex equal to the
\* largest commit_index among the proofs, ProofTerm equal to the term of a
\* proof that attains it, and an empty DependentTxID.
C27_TrailerAggregate ==
    \A t \in Txs :
        enResult[t].kind = "endorsed"
            => LET trailer == enResult[t].trailer
               IN /\ {p[1] : p \in enProofs[t]} = InvolvedShards(t)
                  /\ Cardinality(enProofs[t]) = Cardinality(InvolvedShards(t))
                  /\ \A p \in ProofsOf(t) : verifyProof(p)
                  /\ trailer.HasDependency = (\E p \in ProofsOf(t) : p.CommitIndex > 1)
                  /\ \A p \in ProofsOf(t) : p.CommitIndex <= trailer.ShardCommitIndex
                  /\ \E p \in ProofsOf(t) : /\ p.CommitIndex = trailer.ShardCommitIndex
                                            /\ p.Term = trailer.ProofTerm
                  /\ trailer.DependentTxID = ""

\* a response over two shards was endorsed: one proof has commit_index 1,
\* the other has commit_index 2 and a later term, which the trailer carries
C27_Witness ==
    \E t \in Txs :
        /\ enResult[t].kind = "endorsed"
        /\ InvolvedShards(t) = {"alpha", "beta"}
        /\ {p.CommitIndex : p \in ProofsOf(t)} = {1, 2}
        /\ enResult[t].trailer = [HasDependency |-> TRUE, DependentTxID |-> "",
                                  ShardCommitIndex |-> 2, ProofTerm |-> 2]
        /\ \E p \in ProofsOf(t) : p.CommitIndex = 1 /\ p.Term = 1

\* every order in which the proofs of the set S can be delivered
Orders(S) ==
    {o \in [1..Cardinality(S) -> S] :
        \A i, j \in 1..Cardinality(S) : i # j => o[i] # o[j]}

\* lines 455-463 over the proofs in the order delivered: the aggregate
\* (hasDependency, maxCommitIndex, maxTerm) after the proofs of o from the
\* i-th on were folded into agg
RECURSIVE FoldProofs(_, _, _)
FoldProofs(agg, o, i) ==
    IF i > Len(o)
    THEN agg
    ELSE LET proof == o[i]
         IN FoldProofs([hasDependency |-> agg.hasDependency \/ proof.CommitIndex > 1,
                        maxCommitIndex |-> IF proof.CommitIndex > agg.maxCommitIndex
                                           THEN proof.CommitIndex ELSE agg.maxCommitIndex,
                        maxTerm |-> IF proof.CommitIndex > agg.maxCommitIndex
                                    THEN proof.Term ELSE agg.maxTerm],
                       o, i + 1)

\* the trailer after the proofs were delivered in the order o
TrailerOf(o) ==
    LET agg == FoldProofs([hasDependency |-> FALSE, maxCommitIndex |-> 0, maxTerm |-> 0],
                          o, 1)
    IN [HasDependency |-> agg.hasDependency, DependentTxID |-> "",
        ShardCommitIndex |-> agg.maxCommitIndex, ProofTerm |-> agg.maxTerm]

\* C28: the trailer of an endorsed response is the one its proofs give in
\* some delivery order, and every delivery order of these proofs gives the
\* same trailer, two proofs with the same largest commit_index and
\* different terms included.
C28_TrailerOrderFree ==
    \A t \in Txs :
        enResult[t].kind = "endorsed"
            => /\ enResult[t].trailer \in {TrailerOf(o) : o \in Orders(ProofsOf(t))}
               /\ \A o1, o2 \in Orders(ProofsOf(t)) : TrailerOf(o1) = TrailerOf(o2)

\* ------------------------------------------------------------ claim C29
\* proposals of any chaincode: simulation results that also read or write
\* the namespace of a system chaincode, or no key of the chaincode invoked;
\* a system chaincode touches the keys of system namespaces only
Proposals ==
    LET more == Simulations \cup
                { [Writes |-> (<<"beta", "k1">> :> "v"),
                   Reads |-> (<<"lscc", "k1">> :> <<0, 1>>)],
                  [Writes |-> (<<"lscc", "k1">> :> "v"), Reads |-> EmptyMap] }
    IN {<<simResults, chaincode>> \in more \X {"alpha", "beta", "lscc"} :
           IsSysCC(chaincode)
               => \A k \in DOMAIN simResults.Writes \cup DOMAIN simResults.Reads :
                      IsSysCC(k[1])}

\* a proposal of any chaincode arrives
EnStartAny(t) == \E proposal \in Proposals : EnBegin(t, proposal[1], proposal[2])

\* the fan-out up to its deadline, no shard committing anything
NextFanOut ==
    \/ \E t \in Txs : EnStartAny(t)
    \/ \E t \in Txs, ns \in Namespaces : EnAcquire(t, ns)
    \/ \E t \in Txs, ns \in Namespaces : EnTaskSend(t, ns)
    \/ \E t \in Txs, ns \in Namespaces : EnTaskSendTimeout(t, ns)
    \/ \E t \in Txs, ns \in Namespaces : EnTaskRecvTimeout(t, ns)
    \/ \E t \in Txs : EnWait(t)
    \/ \E t \in Txs : EnPost(t)

\* the namespaces that own a key of the simulation result of t
KeyOwners(t) ==
    {k[1] : k \in DOMAIN enSim[t].Writes \cup DOMAIN enSim[t].Reads}

\* the non-system namespaces that own a key, and the chaincode invoked
ShardsToContact(t) ==
    {ns \in KeyOwners(t) \cup {enPrimary[t]} : ~IsSysCC(ns)}

\* the shards GetOrCreateShard failed for
ShardsNotObtained(t) == {e[1] : e \in {x \in enErrors[t] : x[2] = "failed to get shard"}}

\* C29: the shards the fan-out of a transaction turns to are the non-system
\* namespaces that own a key of the simulation result and the chaincode
\* invoked, also when it owns no key; every one of them that
\* GetOrCreateShard returned is contacted, and no other shard, so never the
\* shard of a system namespace.
C29_ContactedShards ==
    \A t \in Txs :
        /\ enVisited[t] \subseteq ShardsToContact(t)
        /\ enContacted[t] = enVisited[t] \ ShardsNotObtained(t)
        /\ \A ns \in enContacted[t] : ~IsSysCC(ns)
        /\ enPc[t] \in {"post", "done"} => enVisited[t] = ShardsToContact(t)

\* a call of chaincode alpha whose simulation wrote a key of beta and read a
\* key of lscc returned, and shards alpha and beta were contacted
C29_Witness ==
    \E t \in Txs :
        /\ enPc[t] = "done"
        /\ enPrimary[t] = "alpha"
        /\ KeyOwners(t) = {"beta", "lscc"}
        /\ enContacted[t] = {"alpha", "beta"}

\* the requests of transaction t that wait on the ProposeC of shard ns
Queued(t, ns) ==
    Cardinality({i \in 1..Len(esProposeC[ns]) : esProposeC[ns][i].TxID = TxId(t)})

\* how far the goroutine of one shard has come
TaskRank(task) ==
    CASE task = "none" -> 0 [] task = "send" -> 1 [] task = "recv" -> 2 [] task = "done" -> 3

\* C25: at most one PrepareRequest per (tx_id, shard) is put on ProposeC. A
\* request of t joins the ProposeC of ns only in the step in which the
\* goroutine of (t, ns) passes from submitting to waiting for its proof, one
\* request in that step, and a goroutine never goes back to submitting, not
\* after a timeout nor after a failure; so no request is sent twice.
C25_OneRequestPerShard ==
    /\ [](\A t \in Txs : \A ns \in Namespaces : Queued(t, ns) <= 1)
    /\ [][\A t \in Txs : \A ns \in Namespaces :
             /\ TaskRank(enTask'[t][ns]) >= TaskRank(enTask[t][ns])
             /\ Queued(t, ns)' > Queued(t, ns)
                   => /\ Queued(t, ns)' = Queued(t, ns) + 1
                      /\ enTask[t][ns] = "send"
                      /\ enTask'[t][ns] = "recv"]_vars

\* the request of tx1 to alpha was committed, the goroutine's wait for the
\* proof ended on the deadline, the call returned ShardFailure, and alpha's
\* ProposeC is empty
C25_Witness ==
    /\ enPc[1] = "done"
    /\ enResult[1].kind = "ShardFailure"
    /\ <<"alpha", "timeout waiting for proof">> \in enErrors[1]
    /\ esIndex["alpha"] >= 1
    /\ esProposeC["alpha"] = <<>>

\* C24: a transaction that reads key K without writing it never changes
\* K's entry: no entry of a shard's map names as its writer a transaction
\* whose simulation did not write the entry's key.
C24_ReaderNeverWriter ==
    \A t \in Txs : \A ns \in Namespaces : \A k \in DOMAIN esMap[ns] :
        esMap[ns][k].writer = TxId(t) => k \in DOMAIN enSim[t].Writes

\* C21: every proof folded into the aggregate of transaction T as the proof
\* of shard S carries tx_id = T and shard_id = S, so that a trailer is never
\* computed from the proof of another transaction.
C21_OwnProofsOnly ==
    \A t \in Txs : \A p \in enProofs[t] :
        /\ p[2].TxID = TxId(t)
        /\ p[2].ShardID = p[1]

\* ------------------------------------------------------------ claim C22
\* C22: a call that recorded a shard error returns ShardFailure and has
\* issued HandleAbort exactly once to each shard it obtained from the shard
\* manager and to no other; a call that recorded none, and a call that has
\* not returned, has issued HandleAbort to no shard.
C22_AbortExactlyContacted ==
    \A t \in Txs : \A ns \in Namespaces :
        IF enPc[t] = "done" /\ enErrors[t] # {}
        THEN /\ enResult[t].kind = "ShardFailure"
             /\ enAborts[t][ns] = IF ns \in enContacted[t] THEN 1 ELSE 0
        ELSE /\ enAborts[t][ns] = 0
             /\ enResult[t].kind # "ShardFailure"

\* a call over two shards obtained alpha, failed to obtain beta and folded
\* alpha's proof: HandleAbort went to alpha alone; another call, with no
\* shard error, was endorsed
C22_Witness ==
    \E t \in Txs : \E u \in Txs :
        /\ enPc[t] = "done"
        /\ enErrors[t] = {<<"beta", "failed to get shard">>}
        /\ enAborts[t] = [ns \in Namespaces |-> IF ns = "alpha" THEN 1 ELSE 0]
        /\ enResult[u].kind = "endorsed"

\* ------------------------------------------------------------ claim C19
\* C19: a goroutine that leaves its submit while the shard's ProposeC is at
\* capacity leaves it rejected with Busy: the request is not enqueued and a
\* Busy error of the shard is among the transaction's shard errors.
C19_FullQueueBusy ==
    [][\A t \in Txs : \A ns \in Namespaces :
          (/\ enTask[t][ns] = "send"
           /\ Len(esProposeC[ns]) >= ProposeCap
           /\ enTask'[t][ns] # "send")
             => /\ esProposeC'[ns] = esProposeC[ns]
                /\ enTask'[t][ns] = "done"
                /\ <<ns, "Busy">> \in enErrors'[t]]_vars

\* ------------------------------------------------------------ claim C12
\* the goroutines of a call and the call itself keep running; a select that
\* waits on ctx.Done() fires at the latest when the deadline expires
FairEN ==
    \A t \in Txs :
        /\ WF_vars(\E ns \in Namespaces :
                      \/ EnAcquire(t, ns)
                      \/ EnTaskSend(t, ns) \/ EnTaskSendTimeout(t, ns)
                      \/ EnTaskRecv(t, ns) \/ EnTaskRecvTimeout(t, ns))
        /\ WF_vars(EnWait(t) \/ EnPost(t))

\* the errors the deadline produces
DeadlineErrors == {"timeout submitting", "timeout waiting for proof"}

\* C12: every fan-out that began returns; a task that ended has exactly one
\* outcome, a verified proof folded into the aggregate or a recorded shard
\* error; the call returns only when every task has ended; and a call in
\* which the deadline ended some task returns ShardFailure, having sent the
\* abort to every contacted shard.
C12_FanOutTerminates ==
    /\ \A t \in Txs : (enPc[t] = "loop") ~> (enPc[t] = "done")
    /\ [](\A t \in Txs :
             /\ \A ns \in Namespaces :
                   LET proofs == {p \in enProofs[t] : p[1] = ns}
                       errors == {e \in enErrors[t] : e[1] = ns}
                   IN /\ Cardinality(proofs) + Cardinality(errors) <= 1
                      /\ enTask[t][ns] = "done"
                            => Cardinality(proofs) + Cardinality(errors) = 1
                      /\ \A p \in proofs : verifyProof(p[2])
             /\ enResult[t] # NoResult
                   => \A ns \in Namespaces : enTask[t][ns] \in {"none", "done"}
             /\ (enPc[t] = "done" /\ \E e \in enErrors[t] : e[2] \in DeadlineErrors)
                   => /\ enResult[t].kind = "ShardFailure"
                      /\ \A ns \in enContacted[t] : enAborts[t][ns] = 1)

\* a call over two shards returned ShardFailure: one task folded its proof,
\* the other was ended by the deadline while it waited for its proof
C12_Witness ==
    \E t \in Txs :
        /\ enPc[t] = "done"
        /\ enResult[t].kind = "ShardFailure"
        /\ Cardinality(enProofs[t]) = 1
        /\ enErrors[t] = {<<"beta", "timeout waiting for proof">>}
        /\ enAborts[t] = [ns \in Namespaces |-> 1]

\* ======================================================= one shard's replicas
\* The replicas of one shard, "alpha". Replica 1 is the process the endorser
\* talks to: it owns ProposeC and the batcher. Consensus is taken as given
\* here: shLog is the committed log, every replica applies it in index order.
Replicas == 1..NumReplicas
ShardID == "alpha"
NoRequest == [TxID |-> ""]
NoSweep == {<<"none">>}

\* the requests submitted: a write of k1, a write of k2, a read of k1
ShardRequests(t) ==
    { [TxID |-> TxId(t), ShardID |-> ShardID, ReadSet |-> EmptyMap,
       WriteSet |-> (<<"alpha", "k1">> :> "v")],
      [TxID |-> TxId(t), ShardID |-> ShardID, ReadSet |-> EmptyMap,
       WriteSet |-> (<<"alpha", "k2">> :> "v")],
      [TxID |-> TxId(t), ShardID |-> ShardID, ReadSet |-> (<<"alpha", "k1">> :> "0-1"),
       WriteSet |-> EmptyMap] }

InitSH ==
    /\ shNow = 0
    /\ shSent = [t \in Txs |-> NoRequest]
    /\ shProposeC = <<>>
    /\ shPending = <<>>
    /\ shLog = <<>>
    /\ shLeader = 1
    /\ shTerm = 1
    /\ shApplied = [r \in Replicas |-> 0]
    /\ shMap = [r \in Replicas |-> EmptyMap]
    /\ shCommitC = [r \in Replicas |-> <<>>]
    /\ shSweep = [r \in Replicas |-> NoSweep]
    /\ shAborted = {}

\* shard.ProposeC() <- req (transactions are numbered in the order in which
\* they are submitted)
ShSubmit(t) ==
    /\ shSent[t] = NoRequest
    /\ \A u \in Txs : u < t => shSent[u] # NoRequest
    /\ Len(shProposeC) < ProposeCap
    /\ \E req \in ShardRequests(t) :
          /\ shSent' = [shSent EXCEPT ![t] = req]
          /\ shProposeC' = Append(shProposeC, req)
    /\ UNCHANGED <<shNow, shPending, shLog, shLeader, shTerm, shApplied, shMap,
                   shCommitC, shSweep, shAborted>>
    /\ UNCHANGED nonSH

\* runBatcher: the next request comes off ProposeC and joins the pending ones
ShBatcherTake ==
    /\ shProposeC # <<>>
    /\ Len(shPending) < BatchMaxSize
    /\ shPending' = Append(shPending, Head(shProposeC))
    /\ shProposeC' = Tail(shProposeC)
    /\ UNCHANGED <<shNow, shSent, shLog, shLeader, shTerm, shApplied, shMap,
                   shCommitC, shSweep, shAborted>>
    /\ UNCHANGED nonSH

\* a mutant of the flush condition: the batch timer is ignored
FlushDueSizeOnly(pending) == Len(pending) >= BatchMaxSize

\* flush when pending size >= N or the oldest pending request has age >= T
\* (the timer fires at some moment after the first request was taken)
FlushDue(pending) == pending # <<>>

\* a mutant of flushBatch: the requests proposed stay pending
ShFlushKeepPending ==
    /\ FlushDue(shPending)
    /\ shLeader = 1
    /\ shLog' = Append(shLog, [type |-> "batch", reqs |-> shPending, term |-> shTerm])
    /\ UNCHANGED <<shNow, shSent, shProposeC, shPending, shLeader, shTerm, shApplied,
                   shMap, shCommitC, shSweep, shAborted>>
    /\ UNCHANGED nonSH

\* a mutant of flushBatch: a follower proposes too
ShFlushAsFollower ==
    /\ FlushDue(shPending)
    /\ shLog' = Append(shLog, [type |-> "batch", reqs |-> shPending, term |-> shTerm])
    /\ shPending' = <<>>
    /\ UNCHANGED <<shNow, shSent, shProposeC, shLeader, shTerm, shApplied, shMap,
                   shCommitC, shSweep, shAborted>>
    /\ UNCHANGED nonSH

\* flushBatch: the leader proposes the pending requests as one Batch, which
\* consensus commits; a follower holds them
ShFlush ==
    /\ FlushDue(shPending)
    /\ shLeader = 1
    /\ shLog' = Append(shLog, [type |-> "batch", reqs |-> shPending, term |-> shTerm])
    /\ shPending' = <<>>
    /\ UNCHANGED <<shNow, shSent, shProposeC, shLeader, shTerm, shApplied, shMap,
                   shCommitC, shSweep, shAborted>>
    /\ UNCHANGED nonSH

\* HandleAbort(tx_id): leader-only, proposes an AbortEntry, which consensus commits
ShHandleAbort(t) ==
    /\ shSent[t] # NoRequest
    /\ t \notin shAborted
    /\ shLeader = 1
    /\ shAborted' = shAborted \cup {t}
    /\ shLog' = Append(shLog, [type |-> "abort", tx |-> TxId(t), term |-> shTerm])
    /\ UNCHANGED <<shNow, shSent, shProposeC, shPending, shLeader, shTerm, shApplied,
                   shMap, shCommitC, shSweep>>
    /\ UNCHANGED nonSH

\* a mutant of applyEntry: every replica pushes the proofs of a batch
ShApplyAllEmit(r) ==
    /\ shApplied[r] < Len(shLog)
    /\ LET idx == shApplied[r] + 1
           entry == shLog[idx]
       IN /\ shApplied' = [shApplied EXCEPT ![r] = idx]
          /\ IF entry.type = "batch"
             THEN LET res == ApplyBatch(shMap[r], entry.reqs, ShardID, idx, r,
                                        entry.term, shNow)
                  IN /\ shMap' = [shMap EXCEPT ![r] = res.map]
                     /\ shCommitC' = [shCommitC EXCEPT ![r] = @ \o res.proofs]
             ELSE /\ shMap' = [shMap EXCEPT ![r] = RemoveWriter(@, entry.tx)]
                  /\ UNCHANGED shCommitC
    /\ UNCHANGED <<shNow, shSent, shProposeC, shPending, shLog, shLeader, shTerm,
                   shSweep, shAborted>>
    /\ UNCHANGED nonSH

\* applyEntry: replica r applies the next committed entry; only the leader
\* pushes the proofs of a batch to CommitC
ShApply(r) ==
    /\ shApplied[r] < Len(shLog)
    /\ LET idx == shApplied[r] + 1
           entry == shLog[idx]
       IN /\ shApplied' = [shApplied EXCEPT ![r] = idx]
          /\ IF entry.type = "batch"
             THEN LET res == ApplyBatch(shMap[r], entry.reqs, ShardID, idx, r,
                                        entry.term, shNow)
                  IN /\ shMap' = [shMap EXCEPT ![r] = res.map]
                     /\ shCommitC' = [shCommitC EXCEPT ![r] =
                                         IF shLeader = r THEN @ \o res.proofs ELSE @]
             ELSE /\ shMap' = [shMap EXCEPT ![r] = RemoveWriter(@, entry.tx)]
                  /\ UNCHANGED shCommitC
    /\ UNCHANGED <<shNow, shSent, shProposeC, shPending, shLog, shLeader, shTerm,
                   shSweep, shAborted>>
    /\ UNCHANGED nonSH

\* the leader is lost and another replica wins the election of the next term
ShLeaderChange ==
    /\ shTerm < MaxTerm
    /\ \E r \in Replicas \ {shLeader} : shLeader' = r
    /\ shTerm' = shTerm + 1
    /\ UNCHANGED <<shNow, shSent, shProposeC, shPending, shLog, shApplied, shMap,
                   shCommitC, shSweep, shAborted>>
    /\ UNCHANGED nonSH

\* time passes
ShTick ==
    /\ shNow < MaxClock
    /\ shNow' = shNow + 1
    /\ UNCHANGED <<shSent, shProposeC, shPending, shLog, shLeader, shTerm, shApplied,
                   shMap, shCommitC, shSweep, shAborted>>
    /\ UNCHANGED nonSH

\* a mutant of the expiry test: an entry counts as expired one tick late
ExpiredLate(info, now) == now > info.expiry + 1

\* now.After(info.ExpiryTime)
Expired(info, now) == now > info.expiry

\* the sweep's first pass, under the read lock: the expired keys are collected
ShSweepCollect(r) ==
    /\ shSweep[r] = NoSweep
    /\ LET entriesToRemove == {k \in DOMAIN shMap[r] : Expired(shMap[r][k], shNow)}
       IN /\ entriesToRemove # {}
          /\ shSweep' = [shSweep EXCEPT ![r] = entriesToRemove]
    /\ UNCHANGED <<shNow, shSent, shProposeC, shPending, shLog, shLeader, shTerm,
                   shApplied, shMap, shCommitC, shAborted>>
    /\ UNCHANGED nonSH

\* a mutant of the second pass: the collected keys are forgotten, none is deleted
ShSweepDeleteNone(r) ==
    /\ shSweep[r] # NoSweep
    /\ shSweep' = [shSweep EXCEPT ![r] = NoSweep]
    /\ UNCHANGED <<shNow, shSent, shProposeC, shPending, shLog, shLeader, shTerm,
                   shApplied, shMap, shCommitC, shAborted>>
    /\ UNCHANGED nonSH

\* the sweep's second pass, under the write lock: the collected keys are deleted
ShSweepDelete(r) ==
    /\ shSweep[r] # NoSweep
    /\ shMap' = [shMap EXCEPT ![r] = [k \in (DOMAIN @) \ shSweep[r] |-> @[k]]]
    /\ shSweep' = [shSweep EXCEPT ![r] = NoSweep]
    /\ UNCHANGED <<shNow, shSent, shProposeC, shPending, shLog, shLeader, shTerm,
                   shApplied, shCommitC, shAborted>>
    /\ UNCHANGED nonSH

NextSH ==
    \/ \E t \in Txs : ShSubmit(t)
    \/ ShBatcherTake
    \/ ShFlush
    \/ \E t \in Txs : ShHandleAbort(t)
    \/ \E r \in Replicas : ShApply(r)
    \/ ShLeaderChange
    \/ ShTick
    \/ \E r \in Replicas : ShSweepCollect(r)
    \/ \E r \in Replicas : ShSweepDelete(r)

\* the shard with a stable leader: no election takes place
NextSHStable ==
    \/ \E t \in Txs : ShSubmit(t)
    \/ ShBatcherTake
    \/ ShFlush
    \/ \E t \in Txs : ShHandleAbort(t)
    \/ \E r \in Replicas : ShApply(r)
    \/ ShTick
    \/ \E r \in Replicas : ShSweepCollect(r)
    \/ \E r \in Replicas : ShSweepDelete(r)

\* the batcher and the apply loop are goroutines that keep running
FairSH ==
    /\ WF_vars(ShBatcherTake)
    /\ WF_vars(ShFlush)
    /\ \A r \in Replicas : WF_vars(ShApply(r))

\* ----------------------------------------------------- claims C3, C9, C10
\* the writer of the last write to k among the requests reqs, w if none
RECURSIVE LastWriterIn(_, _, _)
LastWriterIn(reqs, k, w) ==
    IF reqs = <<>>
    THEN w
    ELSE LastWriterIn(Tail(reqs), k,
                      IF k \in DOMAIN Head(reqs).WriteSet THEN Head(reqs).TxID ELSE w)

\* the writer of the last write to k in the log entries 1..n
RECURSIVE LastWriterUpTo(_, _)
LastWriterUpTo(n, k) ==
    IF n = 0
    THEN ""
    ELSE IF shLog[n].type = "batch"
         THEN LastWriterIn(shLog[n].reqs, k, LastWriterUpTo(n - 1, k))
         ELSE LastWriterUpTo(n - 1, k)

\* C3 as stated: on every replica an entry held for key K names the writer
\* of the most recently applied write to K, and that write has not expired.
\* (The map is keyed by K, so it holds at most one entry per key.)
C3_LastUnexpiredWriter ==
    \A r \in Replicas : \A k \in DOMAIN shMap[r] :
        /\ shMap[r][k].writer = LastWriterUpTo(shApplied[r], k)
        /\ ~Expired(shMap[r][k], shNow)

\* C3 amended: on every replica an entry held for key K names the writer of
\* the most recently applied write to K and expires no later than TTL from
\* now; it may already have expired, until a sweep pass removes it.
C3_LastWriter ==
    \A r \in Replicas : \A k \in DOMAIN shMap[r] :
        /\ shMap[r][k].writer = LastWriterUpTo(shApplied[r], k)
        /\ shMap[r][k].expiry <= shNow + TTL

\* a replica holds an entry that overwrote another transaction's entry and
\* that has expired without having been swept yet
C3_Witness ==
    \E r \in Replicas : \E k \in DOMAIN shMap[r] :
        /\ shMap[r][k].hasDep
        /\ shMap[r][k].writer = "tx2"
        /\ Expired(shMap[r][k], shNow)

\* C9: every proof a replica has pushed to CommitC passes verifyProof.
C9_ProofsVerify ==
    \A r \in Replicas : \A i \in 1..Len(shCommitC[r]) : verifyProof(shCommitC[r][i])

\* proofs were pushed by both replicas, each while it was the leader
C9_Witness ==
    \A r \in Replicas : \E i \in 1..Len(shCommitC[r]) : shCommitC[r][i].LeaderID = r

\* C10: with a stable leader, every request accepted on ProposeC is
\* eventually followed by a proof with its tx id on the leader's CommitC.
C10_RequestLeadsToProof ==
    \A t \in Txs :
        (shSent[t] # NoRequest)
            ~> (\E i \in 1..Len(shCommitC[1]) : shCommitC[1][i].TxID = TxId(t))

\* both transactions were submitted and both proofs are on CommitC
C10_Witness ==
    /\ \A t \in Txs : shSent[t] # NoRequest
    /\ \A t \in Txs : \E i \in 1..Len(shCommitC[1]) : shCommitC[1][i].TxID = TxId(t)

\* ------------------------------------------------------------ claim C11
\* the number of the transaction with tx id id
TxNum(id) == CHOOSE t \in Txs : TxId(t) = id

\* the tx ids of the requests in the log entries 1..n
TxsLogged(n) ==
    UNION {{shLog[i].reqs[j].TxID : j \in 1..Len(shLog[i].reqs)} :
              i \in {x \in 1..n : shLog[x].type = "batch"}}

\* C11: along each CommitC the commit_index never decreases and proofs of
\* one batch follow the order in which their requests arrived; a proof's
\* commit_index is the log position of the batch that holds its request,
\* which the replica has applied; the log only grows, and a request is in no
\* log entry when it is submitted, so its commit_index is larger than that of
\* every proof pushed before.
C11_ProofsInLogOrder ==
    /\ [](\A r \in Replicas : \A i \in 1..Len(shCommitC[r]) :
             LET p == shCommitC[r][i]
             IN /\ p.CommitIndex \in 1..shApplied[r]
                /\ shLog[p.CommitIndex].type = "batch"
                /\ \E n \in 1..Len(shLog[p.CommitIndex].reqs) :
                      shLog[p.CommitIndex].reqs[n].TxID = p.TxID
                /\ \A j \in (i + 1)..Len(shCommitC[r]) :
                      LET q == shCommitC[r][j]
                      IN /\ p.CommitIndex <= q.CommitIndex
                         /\ p.CommitIndex = q.CommitIndex => TxNum(p.TxID) < TxNum(q.TxID))
    /\ [][/\ Len(shLog) <= Len(shLog')
          /\ SubSeq(shLog', 1, Len(shLog)) = shLog
          /\ \A t \in Txs :
                (shSent[t] = NoRequest /\ shSent'[t] # NoRequest)
                    => TxId(t) \notin TxsLogged(Len(shLog))]_vars

\* the leader pushed the proofs of two requests of one batch
C11_Witness ==
    \E r \in Replicas :
        /\ Len(shCommitC[r]) = 2
        /\ shCommitC[r][1].TxID = "tx1"
        /\ shCommitC[r][2].TxID = "tx2"
        /\ shCommitC[r][1].CommitIndex = shCommitC[r][2].CommitIndex

\* ------------------------------------------------------------ claim C31
\* replica r applies a batch in this step
AppliesBatch(r) ==
    /\ shApplied'[r] = shApplied[r] + 1
    /\ shLog[shApplied'[r]].type = "batch"

\* only the replica that is the leader when it applies a batch pushes proofs
LeaderOnlyEmits ==
    [][\A r \in Replicas :
          /\ shCommitC'[r] # shCommitC[r] => (shLeader = r /\ AppliesBatch(r))
          /\ (AppliesBatch(r) /\ shLeader # r) => shCommitC'[r] = shCommitC[r]]_vars

\* C31 as stated: only the replica that is the leader at apply time pushes
\* proofs to CommitC, and two replicas that have applied the same entries
\* hold the same dependency map.
C31_SameMapLeaderEmits ==
    /\ LeaderOnlyEmits
    /\ [](\A r1, r2 \in Replicas : shApplied[r1] = shApplied[r2] => shMap[r1] = shMap[r2])

\* C31 amended: only the replica that is the leader at apply time pushes
\* proofs to CommitC; a replica that applies a batch, leader or follower,
\* gives every key the batch writes the value and the writer of the batch's
\* last write to it and keeps the value and the writer of every other key;
\* the expiry and the dependency flag of an entry depend on the replica's
\* clock and on its own sweep and may differ between replicas.
C31_SameWritesLeaderEmits ==
    /\ LeaderOnlyEmits
    /\ [][\A r \in Replicas :
             AppliesBatch(r)
                 => LET reqs == shLog[shApplied'[r]].reqs
                        written == UNION {DOMAIN reqs[i].WriteSet : i \in 1..Len(reqs)}
                    IN /\ DOMAIN shMap'[r] = (DOMAIN shMap[r]) \cup written
                       /\ \A k \in written :
                             /\ shMap'[r][k].writer = LastWriterIn(reqs, k, "")
                             /\ \E i \in 1..Len(reqs) :
                                   /\ reqs[i].TxID = shMap'[r][k].writer
                                   /\ shMap'[r][k].value = reqs[i].WriteSet[k]
                       /\ \A k \in (DOMAIN shMap[r]) \ written :
                             shMap'[r][k] = shMap[r][k]]_vars

\* the leader and a follower applied the same batch: the leader pushed its
\* proof, the follower pushed none, and the entries they hold for the key
\* written name the same writer and expire at different times
C31_Witness ==
    \E l, f \in Replicas :
        /\ shLeader = l /\ f # l
        /\ shApplied[l] = 1 /\ shApplied[f] = 1
        /\ shLog[1].type = "batch"
        /\ Len(shCommitC[l]) = 1 /\ shCommitC[f] = <<>>
        /\ \E k \in DOMAIN shMap[l] \cap DOMAIN shMap[f] :
              /\ shMap[l][k].writer = shMap[f][k].writer
              /\ shMap[l][k].expiry # shMap[f][k].expiry

\* ------------------------------------------------------------ claim C32
\* the proofs with tx id id that replica r has pushed to its CommitC
ProofsOn(r, id) == {i \in 1..Len(shCommitC[r]) : shCommitC[r][i].TxID = id}

\* every proof pushed names a request that was submitted, this shard, and
\* the log position of a batch that holds the request
ProofsOfSubmitted ==
    \A r \in Replicas : \A i \in 1..Len(shCommitC[r]) :
        LET p == shCommitC[r][i]
        IN /\ \E t \in Txs : shSent[t] # NoRequest /\ shSent[t].TxID = p.TxID
           /\ p.ShardID = ShardID
           /\ p.CommitIndex \in 1..Len(shLog)
           /\ shLog[p.CommitIndex].type = "batch"
           /\ \E n \in 1..Len(shLog[p.CommitIndex].reqs) :
                 shLog[p.CommitIndex].reqs[n].TxID = p.TxID

\* C32 as stated: every proof pushed corresponds to a request that was
\* submitted, and a request has at most one proof, over all batch flushes
\* and over the CommitC of the old and of the new leader.
C32_ProvedOnce ==
    /\ ProofsOfSubmitted
    /\ \A t \in Txs :
          Cardinality({<<r, i>> \in Replicas \X (1..NumTx) : i \in ProofsOn(r, TxId(t))}) <= 1

\* C32 amended: every proof pushed corresponds to a request that was
\* submitted, and each replica pushes at most one proof of a request to its
\* CommitC; after a leader change the new leader may push a proof of a
\* request the old leader has already proved.
C32_ProvedOncePerReplica ==
    /\ ProofsOfSubmitted
    /\ \A t \in Txs : \A r \in Replicas : Cardinality(ProofsOn(r, TxId(t))) <= 1

\* the old and the new leader have each pushed a proof of the request of tx1
C32_Witness ==
    \E r1, r2 \in Replicas :
        /\ r1 # r2
        /\ ProofsOn(r1, "tx1") # {}
        /\ ProofsOn(r2, "tx1") # {}

\* ------------------------------------------------------------ claim C33
\* the positions of the log that hold a batch
Batches == {i \in 1..Len(shLog) : shLog[i].type = "batch"}

\* how often the request of transaction t occurs in the sequence reqs
Occurs(reqs, t) == Cardinality({n \in 1..Len(reqs) : reqs[n] = shSent[t]})

\* how often the request of transaction t occurs in the batches of the log
RECURSIVE OccursInLog(_, _)
OccursInLog(n, t) ==
    IF n = 0
    THEN 0
    ELSE OccursInLog(n - 1, t)
            + (IF shLog[n].type = "batch" THEN Occurs(shLog[n].reqs, t) ELSE 0)

\* C33: every batch in the log holds between 1 and batch_max_size requests,
\* all of them requests the proposing replica received, in the order in
\* which they arrived; a batch enters the log only while the replica that
\* owns ProposeC is the leader, and it is the pending requests as they
\* stand; each accepted request is in exactly one place, on ProposeC, among
\* the pending requests or in one batch, so it is in at most one batch and
\* in exactly one once it was flushed.
C33_BatchesWellFormed ==
    /\ [](/\ \A i \in Batches :
                /\ Len(shLog[i].reqs) \in 1..BatchMaxSize
                /\ \A n \in 1..Len(shLog[i].reqs) :
                      \E t \in Txs : shSent[t] = shLog[i].reqs[n]
                /\ \A n, m \in 1..Len(shLog[i].reqs) :
                      n < m => TxNum(shLog[i].reqs[n].TxID) < TxNum(shLog[i].reqs[m].TxID)
          /\ \A t \in Txs :
                shSent[t] # NoRequest
                    => Occurs(shProposeC, t) + Occurs(shPending, t)
                          + OccursInLog(Len(shLog), t) = 1)
    /\ [][(Len(shLog') > Len(shLog) /\ shLog'[Len(shLog')].type = "batch")
             => /\ shLeader = 1
                /\ shLog'[Len(shLog')].reqs = shPending
                /\ shLog'[Len(shLog')].term = shTerm
                /\ shPending' = <<>>]_vars

\* every transaction's request was accepted, and the log holds them as one
\* batch of batch_max_size requests
C33_Witness ==
    /\ \A t \in Txs : shSent[t] # NoRequest
    /\ Cardinality(Batches) = 1
    /\ \E i \in Batches : Len(shLog[i].reqs) = BatchMaxSize

\* ------------------------------------------------------------ claim C34
\* the map of replica r when it comes to the n-th request of the batch it
\* applies in this step
MapBefore(r, n) ==
    ApplyBatch(shMap[r], SubSeq(shLog[shApplied'[r]].reqs, 1, n - 1), ShardID,
               shApplied'[r], r, shLog[shApplied'[r]].term, shNow).map

\* the keys of req for which map holds an entry of another transaction
OthersEntries(map, req) ==
    {k \in DOMAIN req.WriteSet \cup DOMAIN req.ReadSet :
        k \in DOMAIN map /\ map[k].writer # req.TxID}

\* the keys of req for which map holds an unexpired entry of another transaction
OthersLiveEntries(map, req) ==
    {k \in OthersEntries(map, req) : ~Expired(map[k], shNow)}

\* the requests of the batch applied in this step that wrote last to a key
\* left every key they wrote with the value written, their tx id, the
\* expiry now + TTL, and the flag dep(n)
WritesRecorded(r, dep(_)) ==
    LET reqs == shLog[shApplied'[r]].reqs
    IN \A n \in 1..Len(reqs) : \A k \in DOMAIN reqs[n].WriteSet :
           (\A m \in (n + 1)..Len(reqs) : k \notin DOMAIN reqs[m].WriteSet)
               => shMap'[r][k] = [value |-> reqs[n].WriteSet[k], writer |-> reqs[n].TxID,
                                  expiry |-> shNow + TTL, hasDep |-> dep(n)]

\* C34 as stated: applying a request of T that writes K sets map[K] to the
\* value written, writer T, expiry apply time + TTL, and a dependency flag
\* that is set exactly when a key of the request already had a live entry
\* written by another transaction.
C34_WriteRecordedLive ==
    [][\A r \in Replicas :
          AppliesBatch(r)
              => LET dep(n) == OthersLiveEntries(MapBefore(r, n),
                                                 shLog[shApplied'[r]].reqs[n]) # {}
                 IN WritesRecorded(r, dep)]_vars

\* C34 amended: the same, with the dependency flag set exactly when a key of
\* the request already had an entry written by another transaction, whether
\* live or expired and not yet swept.
C34_WriteRecorded ==
    [][\A r \in Replicas :
          AppliesBatch(r)
              => LET dep(n) == OthersEntries(MapBefore(r, n),
                                             shLog[shApplied'[r]].reqs[n]) # {}
                 IN WritesRecorded(r, dep)]_vars

\* a replica applied the write of k1 by tx1 and, in a later batch at time
\* 2, the write of k1 by tx2: the entry names tx2, expires at 2 + TTL and
\* has the dependency flag
C34_Witness ==
    \E r \in Replicas :
        /\ shApplied[r] = 2
        /\ \A i \in 1..2 : shLog[i].type = "batch" /\ Len(shLog[i].reqs) = 1
        /\ shLog[1].reqs[1].TxID = "tx1"
        /\ <<"alpha", "k1">> \in DOMAIN shLog[1].reqs[1].WriteSet
        /\ <<"alpha", "k1">> \in DOMAIN shMap[r]
        /\ shMap[r][<<"alpha", "k1">>] =
              [value |-> "v", writer |-> "tx2", expiry |-> 2 + TTL, hasDep |-> TRUE]

\* ------------------------------------------------------------ claim C35
\* replica r applies an AbortEntry in this step
AppliesAbort(r) ==
    /\ shApplied'[r] = shApplied[r] + 1
    /\ shLog[shApplied'[r]].type = "abort"

\* C35: a replica, leader or follower, that applies AbortEntry(tx_id)
\* removes every entry of its map whose writer is tx_id, leaves every other
\* entry as it was, and pushes no proof.
C35_AbortRemovesWriter ==
    [][\A r \in Replicas :
          AppliesAbort(r)
              => LET tx == shLog[shApplied'[r]].tx
                 IN /\ DOMAIN shMap'[r] = {k \in DOMAIN shMap[r] : shMap[r][k].writer # tx}
                    /\ \A k \in DOMAIN shMap'[r] : shMap'[r][k] = shMap[r][k]
                    /\ shCommitC'[r] = shCommitC[r]]_vars

\* before any entry can have expired, both replicas have applied the writes
\* of tx1 and tx2 to different keys and then the AbortEntry of tx1: each
\* holds the entry of tx2 and no other
C35_Witness ==
    /\ shNow = 0
    /\ Len(shLog) >= 2
    /\ shLog[Len(shLog)] = [type |-> "abort", tx |-> "tx1", term |-> shLog[Len(shLog)].term]
    /\ \A r \in Replicas :
          /\ shApplied[r] = Len(shLog)
          /\ DOMAIN shMap[r] = {<<"alpha", "k2">>}
          /\ shMap[r][<<"alpha", "k2">>].writer = "tx2"
    /\ \E i \in Batches : \E n \in 1..Len(shLog[i].reqs) :
          /\ shLog[i].reqs[n].TxID = "tx1"
          /\ DOMAIN shLog[i].reqs[n].WriteSet = {<<"alpha", "k1">>}

\* ------------------------------------------------------------ claim C30
\* C30: the TTL sweep deletes only entries that are expired at the moment of
\* deletion; an entry that the collection pass selected and that was
\* rewritten with a later expiry before the deletion pass stays.
C30_SweepDeletesExpiredOnly ==
    [][\A r \in Replicas :
          (shSweep[r] # NoSweep /\ shSweep'[r] = NoSweep)
              => \A k \in (DOMAIN shMap[r]) \ DOMAIN shMap'[r] :
                     Expired(shMap[r][k], shNow)]_vars

\* ------------------------------------------------------------ claim C23
\* time passes and the TTL sweep of every replica keeps running
FairSweep ==
    /\ WF_vars(ShTick)
    /\ \A r \in Replicas : WF_vars(ShSweepCollect(r))
    /\ \A r \in Replicas : WF_vars(ShSweepDelete(r))

\* replica r holds an entry written by transaction t that expires within the
\* time the clock covers
HoldsWriter(r, t) ==
    \E k \in DOMAIN shMap[r] :
        /\ shMap[r][k].writer = TxId(t)
        /\ shMap[r][k].expiry < MaxClock

\* C23: once HandleAbort(tx_id) was accepted by the shard, every replica
\* eventually reaches, and from then on stays in, a state whose map holds no
\* entry written by that transaction, whether the AbortEntry was committed
\* before or after the batch that carries the transaction's request. (An
\* entry written by a batch that is applied after the AbortEntry is removed
\* by the TTL sweep, not by the abort.)
C23_AbortedWriterGone ==
    \A t \in Txs : \A r \in Replicas :
        (t \in shAborted) ~> [](~HoldsWriter(r, t))

\* a replica applied the AbortEntry of tx1 and then the batch with the
\* request of tx1, and holds the entry that batch wrote
C23_Witness ==
    \E r \in Replicas : \E i, j \in 1..shApplied[r] :
        /\ i < j
        /\ shLog[i].type = "abort" /\ shLog[i].tx = "tx1"
        /\ shLog[j].type = "batch"
        /\ \E n \in 1..Len(shLog[j].reqs) : shLog[j].reqs[n].TxID = "tx1"
        /\ HoldsWriter(r, 1)

\* ================================= the leader endorser's dependency map
\* NewEndorser: an empty VariableMap; the ticker fires first one period
\* after the cleanup goroutine started
InitSW ==
    /\ swNow = 0
    /\ swMap = <<>>
    /\ swUsed = 0
    /\ swNextTick = SweepPeriod
    /\ swPc = "idle"
    /\ swMarked = {}
    /\ swGone = {}

\* processTransaction, lines 335-350: an entry under a fresh key that
\* expires EndorsementExpiryDuration from now
SwProcessTransaction ==
    /\ swUsed < NumEntries
    /\ swUsed' = swUsed + 1
    /\ swMap' = [k \in DOMAIN swMap \cup {swUsed + 1} |->
                    IF k = swUsed + 1
                    THEN [expiry |-> swNow + EndorsementExpiryDuration]
                    ELSE swMap[k]]
    /\ UNCHANGED <<swNow, swNextTick, swPc, swMarked, swGone>>
    /\ UNCHANGED nonSW

\* time passes; the ticker fires every SweepPeriod and the cleanup goroutine
\* runs its pass when it fires
SwTick ==
    /\ swNow < SweepMaxClock
    /\ swNow < swNextTick
    /\ swPc = "idle"
    /\ swNow' = swNow + 1
    /\ UNCHANGED <<swMap, swUsed, swNextTick, swPc, swMarked, swGone>>
    /\ UNCHANGED nonSW

\* cleanupExpiredDependencies, lines 251-263: on a tick, the keys of the
\* expired entries are collected under the read lock
SwCollect ==
    /\ swPc = "idle"
    /\ swNow = swNextTick
    /\ swNextTick' = swNextTick + SweepPeriod
    /\ LET entriesToRemove == {k \in DOMAIN swMap : Expired(swMap[k], swNow)}
       IN /\ swMarked' = entriesToRemove
          /\ swPc' = IF entriesToRemove # {} THEN "marked" ELSE "idle"
    /\ UNCHANGED <<swNow, swMap, swUsed, swGone>>
    /\ UNCHANGED nonSW

\* cleanupExpiredDependencies, lines 265-284: the collected keys are deleted
\* under the write lock
SwDelete ==
    /\ swPc = "marked"
    /\ swMap' = [k \in (DOMAIN swMap) \ swMarked |-> swMap[k]]
    /\ swGone' = swGone \cup {<<k, swMap[k].expiry, swNow>> : k \in swMarked \cap DOMAIN swMap}
    /\ swMarked' = {}
    /\ swPc' = "idle"
    /\ UNCHANGED <<swNow, swUsed, swNextTick>>
    /\ UNCHANGED nonSW

NextSW ==
    \/ SwProcessTransaction
    \/ SwTick
    \/ SwCollect
    \/ SwDelete

\* a sweep pass ends in this step
PassEnds ==
    \/ swPc = "idle" /\ swNextTick' # swNextTick /\ swPc' = "idle"
    \/ swPc = "marked" /\ swPc' = "idle"

\* ------------------------------------------------------------ claim C14
\* C14 as stated: a sweep pass leaves no entry whose expiry_time has been
\* reached (expiry_time <= now), and no entry is in the map later than one
\* sweep period after its expiry_time.
C14_SweptByNextPass ==
    /\ [](\A k \in DOMAIN swMap : swNow <= swMap[k].expiry + SweepPeriod)
    /\ [][PassEnds => \A k \in DOMAIN swMap' : ~(swMap'[k].expiry <= swNow)]_vars

\* C14 amended: a sweep pass leaves no entry whose expiry_time lies before
\* the pass (expiry_time < now; an entry that expires at the instant of the
\* pass stays until the following pass), and no entry is in the map later
\* than one sweep period after its expiry_time.
C14_SweptWithinPeriod ==
    /\ [](\A k \in DOMAIN swMap : swNow <= swMap[k].expiry + SweepPeriod)
    /\ [][PassEnds => \A k \in DOMAIN swMap' : ~(swMap'[k].expiry < swNow)]_vars

\* an entry that expired at the instant of a pass was deleted by the
\* following pass, one sweep period after its expiry_time
C14_Witness ==
    \E g \in swGone : g[3] = g[2] + SweepPeriod

\* ================================================ the replica id of a shard
\* The replicas of a shard run in processes of their own; each process
\* builds the ShardConfig of the shard in its GetOrCreateShard.
Procs == 1..NumProcs

\* the default topology, lines 70-74
DefaultReplicaNodes == <<"localhost:7051", "localhost:7052", "localhost:7053">>
\* a topology sharding.json gives for the contract
FileReplicaNodes == <<"peer0:7051", "peer1:7051", "peer2:7051">>
\* sharding.json is missing or does not list the contract
NoFile == <<>>
NoConfig == [ReplicaNodes |-> <<>>, ReplicaID |-> 0]

Elems(seq) == {seq[i] : i \in 1..Len(seq)}

\* every process has its environment; CORE_PEER_ADDRESS may be unset; two
\* processes do not share an address
InitRI ==
    /\ riFile \in {NoFile, FileReplicaNodes}
    /\ riAddr \in [Procs -> Elems(DefaultReplicaNodes) \cup Elems(FileReplicaNodes) \cup {""}]
    /\ \A p \in Procs : \A q \in Procs : p # q /\ riAddr[p] # "" => riAddr[p] # riAddr[q]
    /\ riConfig = [p \in Procs |-> NoConfig]

\* no process creates the shard
NoProcs ==
    /\ riFile = NoFile
    /\ riAddr = [p \in Procs |-> ""]
    /\ riConfig = [p \in Procs |-> NoConfig]

\* lines 88-99: the position of myAddr in replicas, plus one; the id stays
\* as it was when no replica has the address
MatchReplicaID(replicas, myAddr, id) ==
    IF myAddr \in Elems(replicas)
    THEN CHOOSE i \in 1..Len(replicas) :
            /\ replicas[i] = myAddr
            /\ \A j \in 1..(i - 1) : replicas[j] # myAddr
    ELSE id

\* GetOrCreateShard, lines 69-99, in process p: the default config with
\* ReplicaID 1; when sharding.json lists the contract, its replicas and the
\* id matched against CORE_PEER_ADDRESS (localhost:7051 when it is unset)
RiCreateShard(p) ==
    /\ riConfig[p] = NoConfig
    /\ LET myAddr == IF riAddr[p] = "" THEN "localhost:7051" ELSE riAddr[p]
           config == IF riFile = NoFile
                     THEN [ReplicaNodes |-> DefaultReplicaNodes, ReplicaID |-> 1]
                     ELSE [ReplicaNodes |-> riFile,
                           ReplicaID |-> MatchReplicaID(riFile, myAddr, 1)]
       IN riConfig' = [riConfig EXCEPT ![p] = config]
    /\ UNCHANGED <<riFile, riAddr>>
    /\ UNCHANGED nonRI

NextRI == \E p \in Procs : RiCreateShard(p)

\* process p created the shard and its address is one of the shard's replicas
Member17(p) == riConfig[p] # NoConfig /\ riAddr[p] \in Elems(riConfig[p].ReplicaNodes)

\* ------------------------------------------------------------ claim C17
\* C17: every process that created the shard and whose address is in the
\* shard's topology holds as replica_id the 1-based position of its address
\* in the list, so that the replica_ids of distinct processes differ and lie
\* in 1..n.
C17_ReplicaIdIsPosition ==
    \A p \in Procs :
        Member17(p) =>
            /\ riConfig[p].ReplicaID \in 1..Len(riConfig[p].ReplicaNodes)
            /\ riConfig[p].ReplicaNodes[riConfig[p].ReplicaID] = riAddr[p]
            /\ \A q \in Procs \ {p} :
                  Member17(q) => riConfig[q].ReplicaID # riConfig[p].ReplicaID

\* ==================================================== the log-entry codec
\* Marshal and Unmarshal are encoding/json on the structs of the codec. The
\* encoded bytes are modelled as the JSON document they spell: an object is
\* the sequence of its members in the order they are written, a string and a
\* number are their text. Two encodings are byte-for-byte equal exactly when
\* the documents are equal.
JNull == [t |-> "null", v |-> ""]
JString(str) == [t |-> "string", v |-> str]
JNumber(n) == [t |-> "number", v |-> ToString(n)]
JArray(seq) == [t |-> "array", v |-> seq]
JObject(members) == [t |-> "object", v |-> members]

\* a []byte: nil, or its bytes
NilBytes == [nil |-> TRUE, b |-> <<>>]
Bytes(b) == [nil |-> FALSE, b |-> b]
CodecValues == {NilBytes, Bytes(<<>>), Bytes(<<1>>)}

\* base64.StdEncoding of the values
Base64(b) == IF b = <<>> THEN "" ELSE "AQ=="
Base64Decode(str) == CHOOSE b \in {<<>>, <<1>>} : Base64(b) = str

\* the keys of the read and write sets, in the order encoding/json writes
\* the keys of a map (sorted)
CodecKeys == <<"K", "k1">>

\* a map[string][]byte: nil, or its entries
NilMap == [nil |-> TRUE, m |-> <<>>]
Map(m) == [nil |-> FALSE, m |-> m]
CodecMaps ==
    {NilMap, Map(<<>>), Map([k \in {"k1"} |-> Bytes(<<1>>)]),
     Map([k \in {"K", "k1"} |-> IF k = "K" THEN Bytes(<<>>) ELSE NilBytes])}

CodecTxIDs == {"tx1", "tx2"}
CodecTimestamps == {0, 1700000000}

\* PrepareRequestProto
CodecRequests ==
    [TxID : CodecTxIDs, ShardID : {"alpha"}, ReadSet : CodecMaps, WriteSet : CodecMaps,
     Timestamp : CodecTimestamps]

\* a []*PrepareRequestProto: nil, or its elements
NilSlice == [nil |-> TRUE, s |-> <<>>]
Slice(seq) == [nil |-> FALSE, s |-> seq]

\* PrepareRequestBatch
CodecBatches ==
    {[Requests |-> NilSlice]}
        \cup {[Requests |-> Slice(seq)] :
                 seq \in UNION {[1..n -> CodecRequests] : n \in 0..CodecMaxLen}}

\* AbortEntry
CodecAborts == [TxID : CodecTxIDs, Timestamp : CodecTimestamps]

\* json.Marshal of a []byte: null, or the base64 string
MarshalBytes(x) == IF x.nil THEN JNull ELSE JString(Base64(x.b))

\* json.Marshal of a map: null, or an object with the keys sorted
MarshalMap(x) ==
    IF x.nil
    THEN JNull
    ELSE LET keys == SelectSeq(CodecKeys, LAMBDA k : k \in DOMAIN x.m)
         IN JObject([i \in 1..Len(keys) |-> <<keys[i], MarshalBytes(x.m[keys[i]])>>])

\* json.Marshal of a PrepareRequestProto: the fields in the struct's order
MarshalRequest(r) ==
    JObject(<< <<"TxID", JString(r.TxID)>>,
               <<"ShardID", JString(r.ShardID)>>,
               <<"ReadSet", MarshalMap(r.ReadSet)>>,
               <<"WriteSet", MarshalMap(r.WriteSet)>>,
               <<"Timestamp", JNumber(r.Timestamp)>> >>)

\* PrepareRequestBatch.Marshal, lines 33-35
MarshalBatch(b) ==
    JObject(<< <<"Requests",
                 IF b.Requests.nil
                 THEN JNull
                 ELSE JArray([i \in 1..Len(b.Requests.s) |-> MarshalRequest(b.Requests.s[i])])>> >>)

\* AbortEntry.Marshal, lines 43-45
MarshalAbort(a) ==
    JObject(<< <<"TxID", JString(a.TxID)>>, <<"Timestamp", JNumber(a.Timestamp)>> >>)

\* the members of an object that carry the name
Members(obj, name) == SelectSeq(obj.v, LAMBDA mem : mem[1] = name)
Has(obj, name) == Members(obj, name) # <<>>
\* the value json.Unmarshal stores for the name: that of its last member
Member(obj, name) == Members(obj, name)[Len(Members(obj, name))][2]

\* a mutant of UnmarshalBytes: an empty string yields a nil slice
UnmarshalBytesEmptyAsNil(j) ==
    IF j.t = "null" \/ j.v = "" THEN NilBytes ELSE Bytes(Base64Decode(j.v))

\* json.Unmarshal into a []byte: null leaves nil, a string is base64-decoded
UnmarshalBytes(j) ==
    IF j.t = "null" THEN NilBytes ELSE Bytes(Base64Decode(j.v))

\* json.Unmarshal into a nil map: null leaves nil, an object makes the map
UnmarshalMap(j) ==
    IF j.t = "null"
    THEN NilMap
    ELSE Map([k \in {j.v[i][1] : i \in 1..Len(j.v)} |-> UnmarshalBytes(Member(j, k))])

\* json.Unmarshal into an int64 / a string: a missing member leaves the zero
\* value
UnmarshalInt(obj, name) ==
    IF Has(obj, name) /\ Member(obj, name).t = "number"
    THEN CHOOSE n \in CodecTimestamps : ToString(n) = Member(obj, name).v
    ELSE 0
UnmarshalString(obj, name) ==
    IF Has(obj, name) /\ Member(obj, name).t = "string" THEN Member(obj, name).v ELSE ""
UnmarshalMapField(obj, name) ==
    IF Has(obj, name) THEN UnmarshalMap(Member(obj, name)) ELSE NilMap

\* json.Unmarshal into a new PrepareRequestProto
UnmarshalRequest(j) ==
    [TxID |-> UnmarshalString(j, "TxID"),
     ShardID |-> UnmarshalString(j, "ShardID"),
     ReadSet |-> UnmarshalMapField(j, "ReadSet"),
     WriteSet |-> UnmarshalMapField(j, "WriteSet"),
     Timestamp |-> UnmarshalInt(j, "Timestamp")]

\* PrepareRequestBatch.Unmarshal, lines 38-40, into a new batch
UnmarshalBatch(data) ==
    [Requests |->
        IF Has(data, "Requests") /\ Member(data, "Requests").t = "array"
        THEN LET arr == Member(data, "Requests").v
             IN Slice([i \in 1..Len(arr) |-> UnmarshalRequest(arr[i])])
        ELSE NilSlice]

\* AbortEntry.Unmarshal, lines 48-50, into a new entry
UnmarshalAbort(data) ==
    [TxID |-> UnmarshalString(data, "TxID"), Timestamp |-> UnmarshalInt(data, "Timestamp")]

\* no entry is under way
NoEntry ==
    /\ cdKind = "none"
    /\ cdIn = JNull
    /\ cdData = JNull
    /\ cdBack = JNull
    /\ cdData2 = JNull
    /\ cdPc = "none"

\* an entry of the bounded sets is about to be encoded
InitCD ==
    /\ cdKind \in {"batch", "abort"}
    /\ cdIn \in IF cdKind = "batch" THEN CodecBatches ELSE CodecAborts
    /\ cdData = JNull
    /\ cdBack = JNull
    /\ cdData2 = JNull
    /\ cdPc = "new"

\* Marshal of the entry
CdMarshal ==
    /\ cdPc = "new"
    /\ cdData' = IF cdKind = "batch" THEN MarshalBatch(cdIn) ELSE MarshalAbort(cdIn)
    /\ cdPc' = "encoded"
    /\ UNCHANGED <<cdKind, cdIn, cdBack, cdData2>>
    /\ UNCHANGED nonCD

\* Unmarshal of the bytes
CdUnmarshal ==
    /\ cdPc = "encoded"
    /\ cdBack' = IF cdKind = "batch" THEN UnmarshalBatch(cdData) ELSE UnmarshalAbort(cdData)
    /\ cdPc' = "decoded"
    /\ UNCHANGED <<cdKind, cdIn, cdData, cdData2>>
    /\ UNCHANGED nonCD

\* Marshal of the decoded entry
CdMarshalAgain ==
    /\ cdPc = "decoded"
    /\ cdData2' = IF cdKind = "batch" THEN MarshalBatch(cdBack) ELSE MarshalAbort(cdBack)
    /\ cdPc' = "reencoded"
    /\ UNCHANGED <<cdKind, cdIn, cdData, cdBack>>
    /\ UNCHANGED nonCD

NextCD ==
    \/ CdMarshal
    \/ CdUnmarshal
    \/ CdMarshalAgain

\* ------------------------------------------------------------ claim C16
\* C16: for every batch and every abort entry, decoding the encoding gives
\* the entry back (the same requests in the same order, field by field) and
\* encoding that again gives the same bytes.
C16_CodecRoundTrip ==
    /\ cdPc \in {"decoded", "reencoded"} => cdBack = cdIn
    /\ cdPc = "reencoded" => cdData2 = cdData

\* a batch of two requests with a nil map, an empty map, an empty value and
\* a nil value has made the round trip
C16_Witness ==
    /\ cdPc = "reencoded"
    /\ cdKind = "batch"
    /\ ~cdIn.Requests.nil
    /\ Len(cdIn.Requests.s) = 2
    /\ cdIn.Requests.s[1].ReadSet = NilMap
    /\ cdIn.Requests.s[1].WriteSet = Map(<<>>)
    /\ cdIn.Requests.s[2].WriteSet = Map([k \in {"K", "k1"} |-> IF k = "K" THEN Bytes(<<>>) ELSE NilBytes])
    /\ cdIn.Requests.s[1].TxID # cdIn.Requests.s[2].TxID

\* ================================================= the consensus group
\* The three replicas of a shard (the default topology) run leader election
\* and log replication. Each replica hands its outgoing messages to its
\* Transport, which sends every message in a goroutine of its own and drops
\* it when the send fails: a message may be delivered at any later time, in
\* any order, more than once, or never. Vote requests and votes are kept in
\* rfMsgs. The appends a leader has sent are slices of the log it held as
\* leader of its term, with a commit index it had reached: rfSent keeps that
\* log and commit index per <<term, leader>>, also after the leader stepped
\* down, and a replica may receive any such slice. rfAcked keeps the highest
\* index each replica acknowledged to each <<term, leader>>.
RaftIds == {1, 2, 3}
Follower == "Follower"
Candidate == "Candidate"
Leader == "Leader"

Quorums == {q \in SUBSET RaftIds : 2 * Cardinality(q) > Cardinality(RaftIds)}

LastTerm(log) == IF log = <<>> THEN 0 ELSE log[Len(log)].term

Min(a, b) == IF a < b THEN a ELSE b
Max(a, b) == IF a > b THEN a ELSE b

InitRF ==
    /\ rfTerm = [r \in RaftIds |-> 0]
    /\ rfRole = [r \in RaftIds |-> Follower]
    /\ rfVotedFor = [r \in RaftIds |-> 0]
    /\ rfLog = [r \in RaftIds |-> <<>>]
    /\ rfCommit = [r \in RaftIds |-> 0]
    /\ rfApplied = [r \in RaftIds |-> <<>>]
    /\ rfMsgs = {}
    /\ rfSent = [k \in {} |-> 0]
    /\ rfAcked = [k \in {} |-> 0]
    /\ rfStopped = {}

\* consumeMessages / send: the messages go out
Send(ms) == rfMsgs' = rfMsgs \cup ms

\* the appends of leader l now carry its log and commit index
Offer(l, log, commit) ==
    rfSent' = [k \in (DOMAIN rfSent) \cup {<<rfTerm[l], l>>} |->
                  IF k = <<rfTerm[l], l>> THEN [log |-> log, commit |-> commit]
                  ELSE rfSent[k]]

\* a mutant of the campaign: the candidate stays in its term
CampaignSameTerm(r) ==
    /\ rfRole' = [rfRole EXCEPT ![r] = Candidate]
    /\ rfVotedFor' = [rfVotedFor EXCEPT ![r] = r]
    /\ Send({[type |-> "RequestVote", term |-> rfTerm[r], from |-> r,
              lastIndex |-> Len(rfLog[r]), lastTerm |-> LastTerm(rfLog[r])]})
    /\ UNCHANGED <<rfTerm, rfLog, rfCommit, rfApplied, rfSent, rfAcked>>

\* the replica becomes Candidate of the next term, votes for itself and asks
\* the others for their vote
Campaign(r) ==
    /\ rfTerm' = [rfTerm EXCEPT ![r] = @ + 1]
    /\ rfRole' = [rfRole EXCEPT ![r] = Candidate]
    /\ rfVotedFor' = [rfVotedFor EXCEPT ![r] = r]
    /\ Send({[type |-> "RequestVote", term |-> rfTerm[r] + 1, from |-> r,
              lastIndex |-> Len(rfLog[r]), lastTerm |-> LastTerm(rfLog[r])]})
    /\ UNCHANGED <<rfLog, rfCommit, rfApplied, rfSent, rfAcked>>

\* election timeout: the replica becomes Candidate of the next term
RfTimeout(r) ==
    /\ rfRole[r] # Leader
    /\ rfTerm[r] < RaftMaxTerm
    /\ Campaign(r)
    /\ UNCHANGED nonRF

\* a mutant of the vote's log check: any candidate's log is accepted
LogUpToDateAlways(m, log) == TRUE

\* the candidate's log is at least as up to date as the voter's
LogUpToDate(m, log) ==
    \/ m.lastTerm > LastTerm(log)
    \/ m.lastTerm = LastTerm(log) /\ m.lastIndex >= Len(log)

\* Transport.Step with a vote request: a higher term is adopted, and the vote
\* is granted once per term to a candidate whose log is up to date
RfHandleRequestVote(r, m) ==
    /\ m.type = "RequestVote"
    /\ m.from # r
    /\ m.term >= rfTerm[r]
    /\ LET newer == m.term > rfTerm[r]
           voted == IF newer THEN 0 ELSE rfVotedFor[r]
           grant == voted \in {0, m.from} /\ LogUpToDate(m, rfLog[r])
       IN /\ newer \/ (grant /\ voted = 0)
          /\ rfTerm' = [rfTerm EXCEPT ![r] = m.term]
          /\ rfRole' = [rfRole EXCEPT ![r] = IF newer THEN Follower ELSE @]
          /\ rfVotedFor' = [rfVotedFor EXCEPT ![r] = IF grant THEN m.from ELSE voted]
          /\ IF grant
             THEN Send({[type |-> "Vote", term |-> m.term, from |-> r, to |-> m.from]})
             ELSE UNCHANGED rfMsgs
    /\ UNCHANGED <<rfLog, rfCommit, rfApplied, rfSent, rfAcked>>
    /\ UNCHANGED nonRF

\* the replicas whose vote for c in its term has been sent, and c itself
VotesFor(c) ==
    {c} \cup {m.from : m \in {x \in rfMsgs : x.type = "Vote" /\ x.term = rfTerm[c]
                                              /\ x.to = c}}

\* Transport.Step with the votes: a majority makes the candidate Leader
RfBecomeLeader(c) ==
    /\ rfRole[c] = Candidate
    /\ VotesFor(c) \in Quorums
    /\ rfRole' = [rfRole EXCEPT ![c] = Leader]
    /\ Offer(c, rfLog[c], rfCommit[c])
    /\ UNCHANGED <<rfTerm, rfVotedFor, rfLog, rfCommit, rfApplied, rfMsgs, rfAcked>>
    /\ UNCHANGED nonRF

\* flushBatch / HandleAbort on the leader: an entry (a Batch or an AbortEntry
\* of the leader's making) is appended to its log
RfPropose(l) ==
    /\ rfRole[l] = Leader
    /\ Len(rfLog[l]) < RaftMaxLog
    /\ LET log == Append(rfLog[l], [term |-> rfTerm[l], by |-> l])
       IN /\ rfLog' = [rfLog EXCEPT ![l] = log]
          /\ Offer(l, log, rfCommit[l])
    /\ UNCHANGED <<rfTerm, rfRole, rfVotedFor, rfCommit, rfApplied, rfMsgs, rfAcked>>
    /\ UNCHANGED nonRF

\* the log after the entries were written behind prev: entries already there
\* are kept, a conflicting entry and all that follow it are replaced
RECURSIVE Merge(_, _, _)
Merge(log, prev, entries) ==
    IF entries = <<>>
    THEN log
    ELSE IF Len(log) > prev /\ log[prev + 1] = Head(entries)
         THEN Merge(log, prev + 1, Tail(entries))
         ELSE SubSeq(log, 1, prev) \o entries

\* the entries applied when the commit index reaches n
ApplyUpTo(applied, log, n) == applied \o SubSeq(log, Len(applied) + 1, n)

\* the acknowledgement of replica r to <<term, leader>> k reaches n
Ack(k, r, n) ==
    rfAcked' = [a \in (DOMAIN rfAcked) \cup {<<k, r>>} |->
                   IF a = <<k, r>>
                   THEN (IF a \in DOMAIN rfAcked THEN Max(rfAcked[a], n) ELSE n)
                   ELSE rfAcked[a]]

\* Transport.Step with an append of leader k[2] in term k[1], carrying the
\* entries prev+1..last of its log and the commit index c (of which the
\* receiver uses min(c, last)): the term is adopted, the entries are written if the log matches at prev, the commit
\* index follows the leader's, newly committed entries are applied, and the
\* match is acknowledged
RfHandleAppend(r, k, prev, last, c) ==
    /\ k \in DOMAIN rfSent
    /\ k[2] # r
    /\ k[1] >= rfTerm[r]
    /\ prev <= last
    /\ last <= Len(rfSent[k].log)
    /\ c <= rfSent[k].commit
    /\ c <= last
    /\ LET sent == rfSent[k].log
           entries == SubSeq(sent, prev + 1, last)
           matches == IF prev = 0
                      THEN TRUE
                      ELSE /\ prev <= Len(rfLog[r])
                           /\ rfLog[r][prev].term = sent[prev].term
           log == IF matches THEN Merge(rfLog[r], prev, entries) ELSE rfLog[r]
           commit == IF matches THEN Max(rfCommit[r], Min(c, last)) ELSE rfCommit[r]
           acked == IF <<k, r>> \in DOMAIN rfAcked THEN rfAcked[<<k, r>>] ELSE -1
       IN \* a message that changes nothing is left out
          /\ ~(/\ k[1] = rfTerm[r]
               /\ rfRole[r] = Follower
               /\ log = rfLog[r]
               /\ commit = rfCommit[r]
               /\ ~(matches /\ acked < last))
          /\ rfTerm' = [rfTerm EXCEPT ![r] = k[1]]
          /\ rfRole' = [rfRole EXCEPT ![r] = Follower]
          /\ rfVotedFor' = [rfVotedFor EXCEPT ![r] = IF k[1] > rfTerm[r] THEN 0 ELSE @]
          /\ rfLog' = [rfLog EXCEPT ![r] = log]
          /\ rfCommit' = [rfCommit EXCEPT ![r] = commit]
          /\ rfApplied' = [rfApplied EXCEPT ![r] = ApplyUpTo(@, log, commit)]
          /\ IF matches THEN Ack(k, r, last) ELSE UNCHANGED rfAcked
    /\ UNCHANGED <<rfMsgs, rfSent>>
    /\ UNCHANGED nonRF

\* the replicas that acknowledged the leader's entries up to n in its term
Acks(l, n) ==
    {l} \cup {r \in RaftIds : /\ <<<<rfTerm[l], l>>, r>> \in DOMAIN rfAcked
                              /\ rfAcked[<<<<rfTerm[l], l>>, r>>] >= n}

\* Transport.Step with the acknowledgements: an entry of the leader's term
\* held by a majority is committed, and applied
RfAdvanceCommit(l) ==
    /\ rfRole[l] = Leader
    /\ \E n \in (rfCommit[l] + 1)..Len(rfLog[l]) :
          /\ rfLog[l][n].term = rfTerm[l]
          /\ Acks(l, n) \in Quorums
          /\ rfCommit' = [rfCommit EXCEPT ![l] = n]
          /\ rfApplied' = [rfApplied EXCEPT ![l] = ApplyUpTo(@, rfLog[l], n)]
          /\ Offer(l, rfLog[l], n)
    /\ UNCHANGED <<rfTerm, rfRole, rfVotedFor, rfLog, rfMsgs, rfAcked>>
    /\ UNCHANGED nonRF

NextRF ==
    \/ \E r \in RaftIds : RfTimeout(r)
    \/ \E r \in RaftIds, m \in rfMsgs : RfHandleRequestVote(r, m)
    \/ \E r \in RaftIds : RfBecomeLeader(r)
    \/ \E r \in RaftIds : RfPropose(r)
    \/ \E k \in DOMAIN rfSent, r \in RaftIds :
          \E last \in 0..Len(rfSent[k].log) :
             \E prev \in 0..last, c \in 0..Min(last, rfSent[k].commit) :
                RfHandleAppend(r, k, prev, last, c)
    \/ \E r \in RaftIds : RfAdvanceCommit(r)

\* ------------------------------------------------------------- claim C1
\* C1: any two replicas that have both applied an entry at index i applied
\* the same entry there.
C1_LogAgreement ==
    \A r1 \in RaftIds : \A r2 \in RaftIds :
        \A i \in 1..Min(Len(rfApplied[r1]), Len(rfApplied[r2])) :
            rfApplied[r1][i] = rfApplied[r2][i]

\* two replicas applied the same two entries, proposed by different leaders
\* in different terms
C1_Witness ==
    \E r1 \in RaftIds : \E r2 \in RaftIds \ {r1} :
        /\ Len(rfApplied[r1]) = 2
        /\ rfApplied[r2] = rfApplied[r1]
        /\ rfApplied[r1][1].by # rfApplied[r1][2].by
        /\ rfApplied[r1][1].term < rfApplied[r1][2].term

\* ------------------------------------------------------------ claim C15
\* The leader change of a connected group. The running replicas exchange
\* their messages, so that an election timer fires only on a replica that
\* hears from no running leader and has refused the vote request of every
\* running candidate, and a candidate waits for the answers. The leader may
\* be stopped once it has applied an entry; a stopped replica takes no step.
Running == RaftIds \ rfStopped

RfElectionTimeout(r) ==
    /\ r \in Running
    /\ rfRole[r] = Follower
    /\ rfTerm[r] < LeaderChangeMaxTerm
    /\ \A o \in Running : /\ rfRole[o] # Leader
                          /\ rfRole[o] = Candidate
                                => rfTerm[o] = rfTerm[r] /\ rfVotedFor[r] # o
    /\ Campaign(r)
    /\ UNCHANGED nonRF

\* Stop() on the leader, after it applied an entry
RfStop(l) ==
    /\ rfStopped = {}
    /\ rfRole[l] = Leader
    /\ rfApplied[l] # <<>>
    /\ rfStopped' = {l}
    /\ UNCHANGED <<trVars, ptVars, cbVars, smVars, lcVars, swVars, riVars, cdVars, enVars, esVars, shVars, rfVars>>

\* a request reaches the leader; the last place of the log is kept for the
\* request submitted after the leader change
RfSubmit(l) ==
    /\ l \in Running
    /\ rfStopped = {} => Len(rfLog[l]) < RaftMaxLog - 1
    /\ RfPropose(l)

NextRFChange ==
    \/ \E r \in RaftIds : RfElectionTimeout(r)
    \/ \E r \in Running, m \in rfMsgs : RfHandleRequestVote(r, m)
    \/ \E r \in Running : RfBecomeLeader(r)
    \/ \E r \in RaftIds : RfSubmit(r)
    \/ \E k \in DOMAIN rfSent, r \in Running :
          \E last \in 0..Len(rfSent[k].log) :
             \E prev \in 0..last, c \in 0..Min(last, rfSent[k].commit) :
                RfHandleAppend(r, k, prev, last, c)
    \/ \E r \in Running : RfAdvanceCommit(r)
    \/ \E r \in RaftIds : RfStop(r)

\* every running replica keeps taking the steps it can take
FairRF ==
    \A r \in RaftIds :
        /\ WF_vars(RfElectionTimeout(r))
        /\ WF_vars(r \in Running /\ \E m \in rfMsgs : RfHandleRequestVote(r, m))
        /\ WF_vars(r \in Running /\ RfBecomeLeader(r))
        /\ WF_vars(RfSubmit(r))
        /\ WF_vars(r \in Running /\ \E k \in DOMAIN rfSent :
                      \E last \in 0..Len(rfSent[k].log) :
                         \E prev \in 0..last, c \in 0..Min(last, rfSent[k].commit) :
                            RfHandleAppend(r, k, prev, last, c))
        /\ WF_vars(r \in Running /\ RfAdvanceCommit(r))

\* replica n leads in a term above that of the stopped leader
NewLeader(n) ==
    /\ n \in Running
    /\ rfRole[n] = Leader
    /\ \A l \in rfStopped : rfTerm[n] > rfTerm[l]

\* the proof replica n pushes for the request at index i of its applied log
ProofOf(n, i) == PrepareProof("tx1", ShardID, i, n, rfApplied[n][i].term)

\* C15: once the leader of the three replicas was stopped after it applied
\* an entry, a running replica becomes leader in a strictly higher term, and
\* a request submitted to it is committed and applied in that term: its
\* proof verifies and carries a term above 1.
C15_LeaderChange ==
    /\ (rfStopped # {}) ~> (\E n \in RaftIds : NewLeader(n))
    /\ (rfStopped # {})
          ~> (\E n \in RaftIds : \E i \in 1..Len(rfApplied[n]) :
                 /\ NewLeader(n)
                 /\ rfApplied[n][i].by = n
                 /\ ProofOf(n, i).Term = rfTerm[n]
                 /\ ProofOf(n, i).Term > 1
                 /\ verifyProof(ProofOf(n, i)))
    /\ [](\A n \in RaftIds : NewLeader(n) /\ rfStopped # {} => rfTerm[n] > 1)

\* the stopped leader led term 1; the new leader, elected in term 3 after
\* the candidate of term 2 was refused, applied a request of its own
C15_Witness ==
    \E l \in rfStopped : \E n \in Running :
        /\ rfTerm[l] = 1
        /\ rfRole[n] = Leader
        /\ rfTerm[n] = 3
        /\ \E i \in 1..Len(rfApplied[n]) : rfApplied[n][i] = [term |-> 3, by |-> n]

\* ============================================================ the system
\* everything but the codec's round trip
InitCore == InitCB /\ InitSM /\ InitLC /\ InitSW /\ InitEN /\ InitSH /\ InitRF /\ InitTR

InitRest == InitCore /\ InitPeer

Init == InitRest /\ NoProcs /\ NoEntry

\* the codec is given an entry
InitCodec == InitRest /\ NoProcs /\ InitCD

\* the processes of a shard are started
InitProcs == InitRest /\ InitRI /\ NoEntry

SpecCB == Init /\ [][NextCB]_vars
SpecSM == Init /\ [][NextSM]_vars
\* the shard manager's configured shards were built
InitBuilt == Init /\ \A x \in ConfiguredIds : smShards[x] # NoShard
SpecEN == InitBuilt /\ [][NextEN]_vars
SpecSH == InitBuilt /\ [][NextSH]_vars
SpecRF == InitBuilt /\ [][NextRF]_vars
SpecRI == InitProcs /\ [][NextRI]_vars
SpecCD == InitCodec /\ [][NextCD]_vars
SpecSW == Init /\ [][NextSW]_vars
SpecLC == Init /\ [][NextLC]_vars
InitLeader ==
    /\ InitCore /\ InitLeaderEndorser /\ NoProcs /\ NoEntry
    /\ \A x \in ConfiguredIds : smShards[x] # NoShard
LiveTransport == Init /\ [][NextTR]_vars /\ FairTR
LiveLeaderEndorser == InitLeader /\ [][NextLeaderEndorser]_vars /\ FairLeaderEndorser
LiveRF == InitBuilt /\ [][NextRFChange]_vars /\ FairRF
SpecFanOut == InitBuilt /\ [][NextFanOut]_vars
LiveEN == InitBuilt /\ [][NextEN]_vars /\ FairEN
LiveSH == InitBuilt /\ [][NextSHStable]_vars /\ FairSH
LiveTTL == InitBuilt /\ [][NextSHStable]_vars /\ FairSH /\ FairSweep

====
